---- MODULE Spec2Model ----
(***************************************************************************)
(* Ingestion pipelines of the copertine backend over one Weaviate          *)
(* collection: sd2.py and scrapedirectus.py (Directus CMS source),         *)
(* scrape2.py (HTML source, date range) and experiments/scrape_date.py     *)
(* (HTML source, one date).  A run of a program is a sequence of steps,    *)
(* one per date or per CMS article; each step is the whole per-item        *)
(* handler, with the answers of the network, the file system and the store *)
(* drawn nondeterministically.                                             *)
(***************************************************************************)
EXTENDS Integers, Sequences, FiniteSets, TLC

\* ------------------------------------------------------------ bounds
NKeys == 2          \* calendar dates 1..NKeys, Today = NKeys
MaxSteps == 2       \* items (dates, articles) processed in one behaviour
MaxItems == 2       \* dates given by one selector (date file lines)
MaxArticles == 2    \* articles returned by one CMS range query

\* ------------------------------------------------------------ constants
QueryLimit == 10    \* limit=10 of the lookup in _delete_existing_copertine

Keys == 1..NKeys
Today == NKeys
Headlines == {"h1", "h2"}
NoneV == "None"
NoId == <<"none">>
NoDate == 0
\* a line of a date file that is no date in YYYY-MM-DD format
Malformed == NoDate - 1
\* the process has not exited
NoExit == NoDate - 1

VARIABLES
    store,                  \* the collection: set of objects
    disk,                   \* images directory: names of the files written
    nextAuto,               \* number of uuid4 ids the store has generated
    prog,                   \* program of the current (or last) run
    mode,                   \* selector of the run: "number", "date", "datefile"
    status,                 \* "idle", "running", "done", "aborted"
    todo,                   \* what the selector still holds: for each date (CMS
                            \* query) to come, the dates (ranges) it can be
    articles,               \* number of articles of the current CMS response left
    articleRange,           \* dates covered by the current CMS query
    processed_edition_ids,  \* scrapedirectus: editions seen in the current fetch
    last,                   \* what the last processed item did (log of the step)
    budget,                 \* items the behaviour may still process in all
    weaviate_client,        \* the store client of the run: "none", "open", "closed"
    exit_code,              \* exit code of the process of the last run
    kickers,                \* CMS content: the articleKicker values its articles
                            \* have (NoneV: the field is missing)
    \* experiments/missingdates.py
    existing_dates,         \* the dates loaded from the collection
    ignored_dates_str,      \* the holidays, "DD/MM" strings split at "/"
    today,                  \* datetime.now().date()
    missing_dates,          \* what find_missing_dates returned
    \* scrape2.py, extract_page_info
    page_articles,          \* the article.PostCard blocks of a page, in order
    main_article,           \* what _find_main_article returned
    \* experiments/travasa.py
    old_collection,         \* the objects the iterator of the old collection gives
    new_collection,         \* the new collection: set of objects
    migr,                   \* the migration process: status, run, position,
                            \* ids generated, what the last iteration did
    \* routes/auth.py
    users,                  \* table users: rows email, hashed_password, is_active
    email_verifications,    \* table email_verifications
    utcnow,                 \* datetime.utcnow(), in hours
    response,               \* the answer to the last request
    \* download_directus_image, _download_image
    http_response,          \* what client.get gives for the image URL
    base_filename,          \* the destination name without extension
    downloaded,             \* what the download function returned
    \* slugify
    text,                   \* the text given to slugify, a string of characters
    slug,                   \* what slugify returned
    \* transform_image_url_to_filename
    editions,               \* two editions of one source: date, headline, image
    filenames,              \* the destination base names they were given
    \* editionDateIsoStr
    run_now,                \* datetime.now(tz=timezone.utc) of the run
    datePublished,          \* datePublished of the CMS article
    iso_record,             \* the editionId and editionDateIsoStr written
    \* scrape2.check_and_get_edition
    page_fetches,           \* two dates: what the site and the collection answer
    fetch_reports,          \* what the caller got for each of them
    \* scrape2.store_in_weaviate
    page_info,              \* title, author and body extract_page_info gave
    html_record,            \* the captionStr and kickerStr stored for them
    \* the -n selector of sd2 and scrapedirectus
    number,                 \* args.number
    window_now,             \* datetime.now(tz=timezone.utc) of the run
    windows,                \* the dates each program queried the CMS for
    \* scrape.py, the batch page scraper
    scraper,          \* scrape_images: position, max_retries, next_url,
                      \* page_count, retry_count, pages processed
    failed_attempts,  \* failed attempts made in a row up to now
    attempted,        \* the last attempt: its number, page and outcome
    \* the date-range loops of scrape2.py and experiments/scrape2.py
    range_run,        \* program, position, newest, oldest and current date
    visited,          \* the passes of the loop: date and outcome of each
    \* gpt_extract.py, the enrichment of the collection
    copertine,        \* the collection read and updated: uuid -> properties
    extractor,        \* main: position, model_name, objects still to come,
                      \* outcome of each object handled
    \* editionId, editionDateIsoStr and the image file name of one record
    edition,          \* the date, the headline and the image of an edition
    stored_record     \* the three properties a program stored for it

\* what no step of an ingestion run changes
gapVars == <<existing_dates, ignored_dates_str, today, missing_dates>>

pageVars == <<page_articles, main_article>>

migrVars == <<old_collection, new_collection, migr>>

authVars == <<users, email_verifications, utcnow, response>>

dlVars == <<http_response, base_filename, downloaded>>

slugVars == <<text, slug>>

nameVars == <<editions, filenames>>

isoVars == <<run_now, datePublished, iso_record>>

fetchVars == <<page_fetches, fetch_reports>>

bodyVars == <<page_info, html_record>>

winVars == <<number, window_now, windows>>

retryVars == <<scraper, failed_attempts, attempted>>

rangeVars == <<range_run, visited>>

enrichVars == <<copertine, extractor>>

keyVars == <<edition, stored_record>>

moreVars == <<authVars, dlVars, slugVars, nameVars, isoVars, fetchVars,
              bodyVars, winVars, retryVars, rangeVars, enrichVars, keyVars>>

outside == <<kickers, gapVars, pageVars, migrVars, moreVars>>

pipeVars == <<store, disk, nextAuto, prog, mode, status, todo, articles,
              articleRange, processed_edition_ids, last, budget,
              weaviate_client, exit_code, kickers>>

\* what the actions of one section leave alone
firstVars == <<pipeVars, gapVars, pageVars, migrVars>>

notAuth == <<firstVars, dlVars, slugVars, nameVars, isoVars, fetchVars,
             bodyVars, winVars, retryVars, rangeVars, enrichVars, keyVars>>

notDl == <<firstVars, authVars, slugVars, nameVars, isoVars, fetchVars,
           bodyVars, winVars, retryVars, rangeVars, enrichVars, keyVars>>

notSlug == <<firstVars, authVars, dlVars, nameVars, isoVars, fetchVars,
             bodyVars, winVars, retryVars, rangeVars, enrichVars, keyVars>>

notName == <<firstVars, authVars, dlVars, slugVars, isoVars, fetchVars,
             bodyVars, winVars, retryVars, rangeVars, enrichVars, keyVars>>

notIso == <<firstVars, authVars, dlVars, slugVars, nameVars, fetchVars,
            bodyVars, winVars, retryVars, rangeVars, enrichVars, keyVars>>

notFetch == <<firstVars, authVars, dlVars, slugVars, nameVars, isoVars,
              bodyVars, winVars, retryVars, rangeVars, enrichVars, keyVars>>

notBody == <<firstVars, authVars, dlVars, slugVars, nameVars, isoVars,
             fetchVars, winVars, retryVars, rangeVars, enrichVars, keyVars>>

notWin == <<firstVars, authVars, dlVars, slugVars, nameVars, isoVars,
            fetchVars, bodyVars, retryVars, rangeVars, enrichVars, keyVars>>

notRetry == <<firstVars, authVars, dlVars, slugVars, nameVars, isoVars,
              fetchVars, bodyVars, winVars, rangeVars, enrichVars, keyVars>>

notRange == <<firstVars, authVars, dlVars, slugVars, nameVars, isoVars,
              fetchVars, bodyVars, winVars, retryVars, enrichVars, keyVars>>

notEnrich == <<firstVars, authVars, dlVars, slugVars, nameVars, isoVars,
               fetchVars, bodyVars, winVars, retryVars, rangeVars, keyVars>>

notKey == <<firstVars, authVars, dlVars, slugVars, nameVars, isoVars,
            fetchVars, bodyVars, winVars, retryVars, rangeVars, enrichVars>>

vars == <<store, disk, nextAuto, prog, mode, status, todo, articles,
          articleRange, processed_edition_ids, last, budget,
          weaviate_client, exit_code, outside>>

\* ------------------------------------------------------------ store
\* weaviate.util.generate_uuid5(edition_id, namespace_uuid): a hash of the
\* namespace and the name; injective on the dates of the model.
Namespace == "c1e7c19c-2c4c-5c9c-9c9c-c1e7c19c2c4c"

generate_uuid5(edition_id) == <<"uuid5", Namespace, edition_id>>

\* the id Weaviate generates for an insert without uuid (uuid4, never repeated)
uuid4(n) == <<"uuid4", n>>

Ids(s) == {r.id : r \in s}

\* Filter.by_property("editionId").equal(k)
KeyRecs(s, k) == {r \in s : r.editionId = k}

Min(a, b) == IF a <= b THEN a ELSE b

\* collection.query.fetch_objects(filters=editionId == k, limit=limit):
\* the possible answers, any `limit` of the matching objects
fetch_objects(s, k, limit) ==
    {F \in SUBSET KeyRecs(s, k) :
        Cardinality(F) = Min(Cardinality(KeyRecs(s, k)), limit)}

\* the image file name: f"il-manifesto_{date}_{slug}{ext}"
ImageFn(date, headline) == <<"il-manifesto", date, headline>>

\* the properties both Directus programs store for an article
Data(date, headline, fn) ==
    [editionId |-> date, captionStr |-> headline, editionImageFnStr |-> fn]

Obj(id, data) ==
    [id |-> id, editionId |-> data.editionId, captionStr |-> data.captionStr,
     editionImageFnStr |-> data.editionImageFnStr]


\* ------------------------------------------------------------ step log
\* What the last processed item did, as the programs log it: the date, the
\* headline written, how the item ended, how the lookup-and-delete before the
\* write ended, what the store answered to the insert, the id written.
\* the fields of a CMS article that are present; NoArticle when the step read
\* no article
NoArticle == <<>>

Fields(article) ==
    [headline |-> article.referenceHeadline # NoneV,
     image |-> article.articleFeaturedImage,
     kicker |-> article.articleKicker # NoneV]

NoLast ==
    [seq |-> 0, prog |-> "none", key |-> NoDate, cap |-> NoneV, outcome |-> "none",
     reconcile |-> "none", insertResp |-> "none", wid |-> NoId, art |-> NoArticle]

\* the result of a handler that stopped before the download
Stopped(s, dsk, auto, outcome, reconcile) ==
    [store |-> s, disk |-> dsk, auto |-> auto, cap |-> NoneV,
     outcome |-> outcome, reconcile |-> reconcile, insertResp |-> "none",
     wid |-> NoId]

Logged(p, k, res) ==
    [seq |-> last.seq + 1, prog |-> p, key |-> k, cap |-> res.cap,
     outcome |-> res.outcome, reconcile |-> res.reconcile,
     insertResp |-> res.insertResp, wid |-> res.wid, art |-> NoArticle]

\* the log of a step that read the article `article` from the CMS
LoggedArticle(p, k, res, article) ==
    [Logged(p, k, res) EXCEPT !.art = Fields(article)]

\* outcomes in which an exception left the per-item handler
Raised == {"fetch_raised", "asset_raised", "download_raised"}

\* ------------------------------------------------------------ CMS articles
Kickers == {"k1"}

\* a Directus article of date d: referenceHeadline, articleFeaturedImage and
\* articleKicker may be missing
ArticlesOf(d) ==
    [datePublished : {d}, referenceHeadline : Headlines \cup {NoneV},
     articleFeaturedImage : BOOLEAN, articleKicker : kickers]

\* _validate_article asking for the headline alone (the behaviour
\* ValidationGate rules out)
validate_article_headline_only(article) ==
    article.referenceHeadline # NoneV

\* _validate_article: both required fields are present
validate_article(article) ==
    /\ article.referenceHeadline # NoneV
    /\ article.articleFeaturedImage

\* ------------------------------------------------------------ sd2.py
\* _delete_existing_copertine: the stores it can leave, with the outcome of the
\* reconcile.  A failed lookup leaves the store alone; a failed delete is
\* logged and the loop goes on to the next object.
Sd2_delete_existing_copertine(s, edition_id) ==
    {[store |-> s, reconcile |-> "lookup_failed"]}
    \cup
    UNION {
        {[store |-> s \ (found \ failed),
          reconcile |-> IF failed # {} THEN "delete_failed"
                        ELSE IF found = {} THEN "none_found" ELSE "deleted"] :
            failed \in SUBSET found} :
        found \in fetch_objects(s, edition_id, QueryLimit)}

\* _store_in_weaviate: collection.data.insert(properties=data), no uuid given;
\* every exception is caught and logged
Sd2_store_in_weaviate(s, dsk, auto, data, reconcile, insertOk) ==
    IF insertOk
    THEN [store |-> s \cup {Obj(uuid4(auto + 1), data)}, disk |-> dsk,
          auto |-> auto + 1, cap |-> data.captionStr, outcome |-> "inserted",
          reconcile |-> reconcile, insertResp |-> "ok", wid |-> uuid4(auto + 1)]
    ELSE [store |-> s, disk |-> dsk, auto |-> auto, cap |-> NoneV,
          outcome |-> "insert_failed", reconcile |-> reconcile,
          insertResp |-> "other", wid |-> NoId]

\* the answers of _download_and_save_image: the asset lookup gave no url, the
\* asset lookup raised (HTTP error status), the download or the write failed,
\* or the file was written
Sd2Downloads == {"asset_none", "asset_raised", "download_failed", "saved"}

\* _process_copertina after the validation: reconcile, download, and only
\* when a file name came back, store
Sd2_reconcile_download_store(s, dsk, auto, article, date) ==
    LET fn == ImageFn(date, article.referenceHeadline)
        data == Data(date, article.referenceHeadline, fn)
    IN UNION {
         {IF dl = "saved"
          THEN Sd2_store_in_weaviate(rec.store, dsk \cup {fn}, auto, data,
                                     rec.reconcile, insertOk)
          ELSE Stopped(rec.store, dsk, auto, dl, rec.reconcile) :
             dl \in Sd2Downloads, insertOk \in BOOLEAN} :
         rec \in Sd2_delete_existing_copertine(s, date)}

\* _process_copertina
Sd2_process_copertina(s, dsk, auto, article, date) ==
    IF ~validate_article(article)
    THEN {Stopped(s, dsk, auto, "invalid", "none")}
    ELSE Sd2_reconcile_download_store(s, dsk, auto, article, date)

\* process_copertine, one iteration of the loop over the dates: the CMS gives
\* no article, the query raises, or the article is processed; an exception is
\* logged and the loop goes on.  A malformed line of the date file was logged
\* and left out by _parse_date_file: it gives no date to the loop.
Sd2_process_date ==
    /\ status = "running" /\ prog = "sd2" /\ todo # <<>>
    /\ last.seq < budget
    /\ \E date \in Head(todo) :
          IF date = Malformed
          THEN /\ last' = Logged("sd2", NoDate,
                                 Stopped(store, disk, nextAuto,
                                         "malformed_line", "none"))
               /\ UNCHANGED <<store, disk, nextAuto>>
          ELSE \/ \E o \in {"no_data", "fetch_raised"} :
                     /\ last' = Logged("sd2", date,
                                       Stopped(store, disk, nextAuto, o, "none"))
                     /\ UNCHANGED <<store, disk, nextAuto>>
               \/ \E a \in ArticlesOf(date) :
                  \E res \in Sd2_process_copertina(store, disk, nextAuto,
                                                   a, date) :
                     /\ store' = res.store
                     /\ disk' = res.disk
                     /\ nextAuto' = res.auto
                     /\ last' = LoggedArticle("sd2", date, res, a)
    /\ todo' = Tail(todo)
    /\ UNCHANGED <<outside, prog, mode, status, articles, articleRange,
                   processed_edition_ids, budget, weaviate_client, exit_code>>

\* the dates of a selector: -n N gives today and the N-1 days before it,
\* --date one date, --datefile the dates of the lines of the file in order.
\* A line of the file can hold any date or no date at all: what it holds is
\* drawn when its turn comes.
Selections ==
    {<<"number", [i \in 1..n |-> {Today - (i - 1)}]>> : n \in 1..NKeys}
    \cup {<<"date", <<{d}>> >> : d \in Keys}
    \cup {<<"datefile", [i \in 1..n |-> Keys \cup {Malformed}]>> :
             n \in 0..MaxItems}

\* __init__ of the scrapers of sd2.py and scrapedirectus.py raises: before the
\* client is connected (COP_WEAVIATE_URL missing, no connection), or after it
\* (_ensure_collection, a missing Directus variable); the with block of main
\* is never entered, nothing closes the client, main exits with 1
ConstructionFails ==
    /\ status' = "init_failed"
    /\ weaviate_client' \in {"none", "open"}
    /\ exit_code' = 1
    /\ mode' = "none"
    /\ todo' = <<>>

\* main: the scraper is constructed, the dates are parsed and handed to
\* process_copertine
Sd2_main ==
    /\ status # "running" /\ last.seq < budget
    /\ \/ /\ \E sel \in Selections :
                /\ mode' = sel[1]
                /\ todo' = sel[2]
          /\ status' = "running"
          /\ weaviate_client' = "open"
          /\ exit_code' = NoExit
       \/ ConstructionFails
    /\ prog' = "sd2"
    /\ articles' = 0
    /\ articleRange' = {}
    /\ processed_edition_ids' = {}
    /\ UNCHANGED <<outside, store, disk, nextAuto, last, budget>>

\* ------------------------------------------------------------ scrapedirectus.py
\* store_in_weaviate without the fallback: a refused insert is logged as any
\* other error and nothing is replaced (the behaviour WriteConflictFallback
\* rules out)
Sdir_store_in_weaviate_no_fallback(s, dsk, auto, data, resp) ==
    LET uuid == generate_uuid5(data.editionId)
        insertResp == IF resp = "other" THEN "other"
                      ELSE IF uuid \in Ids(s) THEN "conflict" ELSE "ok"
    IN IF insertResp = "ok"
       THEN [store |-> s \cup {Obj(uuid, data)}, disk |-> dsk, auto |-> auto,
             cap |-> data.captionStr, outcome |-> "inserted",
             reconcile |-> "none", insertResp |-> insertResp, wid |-> uuid]
       ELSE [store |-> s, disk |-> dsk, auto |-> auto, cap |-> NoneV,
             outcome |-> "insert_failed", reconcile |-> "none",
             insertResp |-> insertResp, wid |-> NoId]

\* store_in_weaviate: insert under the uuid5 of the edition id; when the store
\* answers that the id already exists, replace; any other error is logged.
\* resp is what the store does: "ok", "other" (the insert fails otherwise),
\* "replace_failed" (the replace that follows a conflict fails).
Sdir_store_in_weaviate(s, dsk, auto, data, resp) ==
    LET uuid == generate_uuid5(data.editionId)
        insertResp == IF resp = "other" THEN "other"
                      ELSE IF uuid \in Ids(s) THEN "conflict" ELSE "ok"
        written == [cap |-> data.captionStr, wid |-> uuid]
        failed == [cap |-> NoneV, wid |-> NoId]
        end == [disk |-> dsk, auto |-> auto, reconcile |-> "none",
                insertResp |-> insertResp]
    IN CASE insertResp = "ok" ->
              end @@ written @@
              [store |-> s \cup {Obj(uuid, data)}, outcome |-> "inserted"]
         [] insertResp = "other" ->
              end @@ failed @@ [store |-> s, outcome |-> "insert_failed"]
         [] insertResp = "conflict" /\ resp = "replace_failed" ->
              end @@ failed @@ [store |-> s, outcome |-> "replace_failed"]
         [] OTHER ->
              end @@ written @@
              [store |-> {r \in s : r.id # uuid} \cup {Obj(uuid, data)},
               outcome |-> "replaced"]

\* the answers of get_asset_url and download_directus_image: no url (request
\* error, no or malformed record), HTTP error status on the lookup (raised),
\* download failed (request error, no content type, write error), HTTP error
\* status on the download (raised), file written
SdirDownloads ==
    {"asset_none", "asset_raised", "download_failed", "download_raised", "saved"}

\* _process_image without the test of the download result: the article is
\* stored whatever the download returned (the behaviour AssetBeforeRecord
\* rules out)
Sdir_process_image_unchecked(s, dsk, auto, article) ==
    LET date == article.datePublished
        fn == ImageFn(date, article.referenceHeadline)
        data == Data(date, article.referenceHeadline, fn)
    IN {Sdir_store_in_weaviate(s, IF dl = "saved" THEN dsk \cup {fn} ELSE dsk,
                               auto, data, resp) :
           dl \in SdirDownloads, resp \in {"ok", "other", "replace_failed"}}

\* _process_image: the article is stored only when the download returned the
\* name of the file it wrote
Sdir_process_image(s, dsk, auto, article) ==
    LET date == article.datePublished
        fn == ImageFn(date, article.referenceHeadline)
        data == Data(date, article.referenceHeadline, fn)
    IN {IF dl = "saved"
        THEN Sdir_store_in_weaviate(s, dsk \cup {fn}, auto, data, resp)
        ELSE Stopped(s, dsk, auto, dl, "none") :
           dl \in SdirDownloads, resp \in {"ok", "other", "replace_failed"}}

\* _process_article without the test of processed_edition_ids (the behaviour
\* FetchDeduplicated rules out)
Sdir_process_article_no_dedup(s, dsk, auto, article, seen) ==
    IF ~validate_article(article)
    THEN {Stopped(s, dsk, auto, "invalid", "none")}
    ELSE Sdir_process_image(s, dsk, auto, article)

\* _process_article: validation, then the edition is skipped when an article
\* of this fetch had it already
Sdir_process_article(s, dsk, auto, article, seen) ==
    IF ~validate_article(article)
    THEN {Stopped(s, dsk, auto, "invalid", "none")}
    ELSE IF article.datePublished \in seen
    THEN {Stopped(s, dsk, auto, "dup_skip", "none")}
    ELSE Sdir_process_image(s, dsk, auto, article)

\* fetch_directus_articles, one iteration of the loop over the articles of the
\* response; an exception leaves the loop, fetch_directus_articles and the
\* loop of main, and main exits with 1.  processed_edition_ids is a local of
\* fetch_directus_articles: it is gone when the function is left.
Sdir_article ==
    /\ status = "running" /\ prog = "scrapedirectus" /\ articles > 0
    /\ last.seq < budget
    /\ \E article \in UNION {ArticlesOf(d) : d \in articleRange} :
       \E res \in Sdir_process_article(store, disk, nextAuto, article,
                                       processed_edition_ids) :
          /\ store' = res.store
          /\ disk' = res.disk
          /\ nextAuto' = res.auto
          /\ last' = LoggedArticle("scrapedirectus", article.datePublished,
                                   res, article)
          /\ processed_edition_ids' =
                IF articles = 1 \/ res.outcome \in Raised THEN {}
                ELSE IF validate_article(article)
                THEN processed_edition_ids \cup {article.datePublished}
                ELSE processed_edition_ids
          /\ status' = IF res.outcome \in Raised THEN "aborted" ELSE status
          /\ weaviate_client' =
                IF res.outcome \in Raised THEN "closed" ELSE weaviate_client
          /\ exit_code' = IF res.outcome \in Raised THEN 1 ELSE exit_code
          /\ articleRange' =
                IF articles = 1 \/ res.outcome \in Raised THEN {}
                ELSE articleRange
    /\ articles' = articles - 1
    /\ UNCHANGED <<outside, prog, mode, todo, budget>>

\* an exception reaches the handlers at the end of main: the with block is
\* left, __exit__ closes the client, main exits with 1
Sdir_aborts(outcome) ==
    /\ status' = "aborted"
    /\ weaviate_client' = "closed"
    /\ exit_code' = 1
    /\ last' = Logged("scrapedirectus", NoDate,
                      Stopped(store, disk, nextAuto, outcome, "none"))
    /\ UNCHANGED <<articles, articleRange, processed_edition_ids>>

\* the next line of the date file (or the one range of -n and --date):
\* calculate_date_range, then fetch_directus_articles up to its loop.  For a
\* line that is no date calculate_date_range raises InvalidDateFormatError;
\* the handler of the loop, `except ValueError: logger.exception()`, calls
\* exception without its message argument, which raises TypeError.  A request
\* error or an HTTP error status of the query is caught nowhere but at the
\* end of main.
Sdir_fetch ==
    /\ status = "running" /\ prog = "scrapedirectus" /\ articles = 0
    /\ todo # <<>>
    /\ last.seq < budget
    /\ \E range \in Head(todo) :
          IF Malformed \in range
          THEN Sdir_aborts("malformed_line")
          ELSE \/ Sdir_aborts("fetch_raised")
               \/ \E n \in 0..MaxArticles :
                     /\ articles' = n
                     /\ articleRange' = IF n = 0 THEN {} ELSE range
                     /\ processed_edition_ids' = {}
                     /\ UNCHANGED <<status, last, weaviate_client, exit_code>>
    /\ todo' = Tail(todo)
    /\ UNCHANGED <<outside, store, disk, nextAuto, prog, mode, budget>>

\* calculate_date_range: the dates one query covers; -n gives one query
\* from the oldest date of the window to today, a date one query of that day
calculate_date_range(m, dates) ==
    IF m = "number"
    THEN <<{UNION {dates[i] : i \in 1..Len(dates)}}>>
    ELSE [i \in 1..Len(dates) |-> {{d} : d \in dates[i]}]

\* main: one query for -n and --date, one query per line for --datefile
Sdir_main ==
    /\ status # "running" /\ last.seq < budget
    /\ \/ /\ \E sel \in Selections :
                /\ mode' = sel[1]
                /\ todo' = calculate_date_range(sel[1], sel[2])
          /\ status' = "running"
          /\ weaviate_client' = "open"
          /\ exit_code' = NoExit
       \/ ConstructionFails
    /\ prog' = "scrapedirectus"
    /\ articles' = 0
    /\ articleRange' = {}
    /\ processed_edition_ids' = {}
    /\ UNCHANGED <<outside, store, disk, nextAuto, last, budget>>

\* ------------------------------------------------------------ scrape2.py
\* the src attributes of the img of a main article that match the CDN patterns
ImageUrls == {"cdn1"}

\* transform_image_url_to_filename: the date and the path of the CDN url
HtmlImageFn(date, image_url) == <<"il-manifesto", date, image_url>>

\* store_in_weaviate: collection.data.insert(data), no uuid given; every
\* exception is caught and logged (scrape_date.py holds the same function)
Html_store_in_weaviate(s, dsk, auto, data, reconcile, insertOk) ==
    IF insertOk
    THEN [store |-> s \cup {Obj(uuid4(auto + 1), data)}, disk |-> dsk,
          auto |-> auto + 1, cap |-> data.captionStr, outcome |-> "inserted",
          reconcile |-> reconcile, insertResp |-> "ok", wid |-> uuid4(auto + 1)]
    ELSE [store |-> s, disk |-> dsk, auto |-> auto, cap |-> NoneV,
          outcome |-> "insert_failed", reconcile |-> reconcile,
          insertResp |-> "other", wid |-> NoId]

\* how the body of the loop can end once the page is to be processed: the
\* page holds no main article with an image, the image url gives no file
\* name, the download fails, or the image is saved and the edition stored
Html_extract_download_store(s, dsk, auto, date, reconcile) ==
    {Stopped(s, dsk, auto, o, reconcile) :
        o \in {"no_article", "no_filename", "download_failed"}}
    \cup
    {Html_store_in_weaviate(s, dsk \cup {HtmlImageFn(date, url)}, auto,
                            Data(date, title, HtmlImageFn(date, url)),
                            reconcile, insertOk) :
        title \in Headlines, url \in ImageUrls, insertOk \in BOOLEAN}

\* _check_edition_exists: the possible answers; a failed lookup answers False
S2_check_edition_exists(s, date_str) ==
    {[exists |-> FALSE, reconcile |-> "lookup_failed"],
     [exists |-> fetch_objects(s, date_str, 1) # {{}},
      reconcile |-> IF KeyRecs(s, date_str) = {} THEN "none_found" ELSE "found"]}

\* check_and_get_edition and the loop body of fetch_manifesto_edition_data
S2_process_date(s, dsk, auto, date) ==
    {Stopped(s, dsk, auto, "no_data", "none")}
    \cup
    UNION {
        IF chk.exists
        THEN {Stopped(s, dsk, auto, "exists_skip", chk.reconcile)}
        ELSE {Stopped(s, dsk, auto, "fetch_failed", chk.reconcile)}
             \cup Html_extract_download_store(s, dsk, auto, date, chk.reconcile) :
        chk \in S2_check_edition_exists(s, date)}

\* fetch_manifesto_edition_data, one iteration of the loop over the dates
S2_date ==
    /\ status = "running" /\ prog = "scrape2" /\ todo # <<>>
    /\ last.seq < budget
    /\ \E date \in Head(todo) :
       \E res \in S2_process_date(store, disk, nextAuto, date) :
          /\ store' = res.store
          /\ disk' = res.disk
          /\ nextAuto' = res.auto
          /\ last' = Logged("scrape2", date, res)
    /\ todo' = Tail(todo)
    /\ UNCHANGED <<outside, prog, mode, status, articles, articleRange,
                   processed_edition_ids, budget, weaviate_client, exit_code>>

\* the dates from newest down to oldest
DatesDown(newest, oldest) ==
    [i \in 1..(IF newest >= oldest THEN newest - oldest + 1 ELSE 0) |->
        {newest - (i - 1)}]

Max(S) == CHOOSE x \in S : \A y \in S : y <= x

\* get_most_recent_edition_date: the newest edition date of the collection,
\* None when the collection is empty or the query fails
get_most_recent_edition_date(s) ==
    {NoDate} \cup (IF s = {} THEN {} ELSE {Max({r.editionId : r \in s})})

\* __main__: from today back to the day after the most recent stored edition,
\* or back to the configured oldest date when none is found.  An exception
\* (of the constructor, COPERTINE_OLDEST_DATE missing) is logged; the finally
\* clause deletes the scraper and __del__ closes the client; nothing sets an
\* exit code but the sys.exit(0) of the up-to-date case.
S2_main ==
    /\ status # "running" /\ last.seq < budget
    /\ \/ \E most_recent \in get_most_recent_edition_date(store) :
             IF most_recent # NoDate /\ most_recent >= Today
             THEN /\ status' = "done"
                  /\ todo' = <<>>
                  /\ weaviate_client' = "closed"
                  /\ exit_code' = 0
             ELSE /\ status' = "running"
                  /\ \E oldest \in (IF most_recent # NoDate
                                    THEN {most_recent + 1} ELSE Keys) :
                        todo' = DatesDown(Today, oldest)
                  /\ weaviate_client' = "open"
                  /\ exit_code' = NoExit
       \/ /\ status' = "init_failed"
          /\ todo' = <<>>
          /\ weaviate_client' \in {"none", "closed"}
          /\ exit_code' = 0
    /\ prog' = "scrape2"
    /\ mode' = "range"
    /\ articles' = 0
    /\ articleRange' = {}
    /\ processed_edition_ids' = {}
    /\ UNCHANGED <<outside, store, disk, nextAuto, last, budget>>

\* ------------------------------------------------------------ scrape_date.py
\* _delete_existing_edition: the objects of the date are deleted one by one
\* inside one try: the first delete that fails ends the loop
SDate_delete_existing_edition(s, date_str) ==
    {[store |-> s, reconcile |-> "lookup_failed"]}
    \cup
    {[store |-> s \ deleted,
      reconcile |-> IF deleted # KeyRecs(s, date_str) THEN "delete_failed"
                    ELSE IF deleted = {} THEN "none_found" ELSE "deleted"] :
        deleted \in SUBSET KeyRecs(s, date_str)}

\* fetch_single_edition: the page is checked, the existing editions of the
\* date are deleted, then the page is fetched and processed
SDate_fetch_single_edition(s, dsk, auto, date) ==
    {Stopped(s, dsk, auto, "no_data", "none")}
    \cup
    UNION {
        {Stopped(rec.store, dsk, auto, "fetch_failed", rec.reconcile)}
        \cup Html_extract_download_store(rec.store, dsk, auto, date,
                                         rec.reconcile) :
        rec \in SDate_delete_existing_edition(s, date)}

\* main: the date of the command line is scraped; when the constructor
\* raises main exits with 1 and nothing closes the client
SDate_main ==
    /\ status # "running" /\ last.seq < budget
    /\ \/ /\ \E date \in Keys : todo' = <<{date}>>
          /\ mode' = "date"
          /\ status' = "running"
          /\ weaviate_client' = "open"
          /\ exit_code' = NoExit
       \/ ConstructionFails
    /\ prog' = "scrape_date"
    /\ articles' = 0
    /\ articleRange' = {}
    /\ processed_edition_ids' = {}
    /\ UNCHANGED <<outside, store, disk, nextAuto, last, budget>>

SDate_date ==
    /\ status = "running" /\ prog = "scrape_date" /\ todo # <<>>
    /\ last.seq < budget
    /\ \E date \in Head(todo) :
       \E res \in SDate_fetch_single_edition(store, disk, nextAuto, date) :
          /\ store' = res.store
          /\ disk' = res.disk
          /\ nextAuto' = res.auto
          /\ last' = Logged("scrape_date", date, res)
    /\ todo' = Tail(todo)
    /\ UNCHANGED <<outside, prog, mode, status, articles, articleRange,
                   processed_edition_ids, budget, weaviate_client, exit_code>>

\* ------------------------------------------------------------ end of a run
\* the loop over the dates (queries, articles) is over: main returns.  The
\* with block of sd2.py and scrapedirectus.py calls cleanup, scrape2.py
\* deletes the scraper and __del__ closes the client; scrape_date.py deletes
\* the scraper, which has no __del__, and never calls cleanup.
RunCompleted ==
    /\ status = "running" /\ todo = <<>> /\ articles = 0
    /\ status' = "done"
    /\ weaviate_client' =
          IF prog = "scrape_date" THEN weaviate_client ELSE "closed"
    /\ exit_code' = 0
    /\ UNCHANGED <<outside, store, disk, nextAuto, prog, mode, todo, articles,
                   articleRange, processed_edition_ids, last, budget>>

\* ------------------------------------------------------------ specification
\* no call of find_missing_dates
NoResult == <<NoDate>>

GapIdle ==
    /\ existing_dates = {}
    /\ ignored_dates_str = {}
    /\ today = Today
    /\ missing_dates = NoResult

\* no page parsed: _find_main_article returns the position of the block it
\* chose, NoMain for None
NoMain == 0

NotScanned == NoMain - 1

PageIdle ==
    /\ page_articles = <<>>
    /\ main_article = NotScanned

\* no migration
NoMigration ==
    [status |-> "idle", run |-> 0, completed |-> 0, pos |-> 0, auto |-> 0,
     check |-> "none", inserted |-> FALSE,
     stats |-> [total |-> 0, existing |-> 0, migrated |-> 0, failed |-> 0]]

MigrIdle ==
    /\ old_collection = <<>>
    /\ new_collection = {}
    /\ migr = NoMigration

\* no request to the authentication routes
NoResponse == [n |-> 0, op |-> "none", status_code |-> 0, arg |-> NoneV]

AuthIdle ==
    /\ users = {}
    /\ email_verifications = {}
    /\ utcnow = 0
    /\ response = NoResponse

\* no download
NoDownload == [prog |-> "none", outcome |-> "none", name |-> NoneV]

DlIdle ==
    /\ http_response = NoneV
    /\ base_filename = NoneV
    /\ downloaded = NoDownload

\* no call of slugify
NoString == <<NoneV>>

SlugIdle ==
    /\ text = <<>>
    /\ slug = NoString

\* no file name derived
NameIdle ==
    /\ editions = <<>>
    /\ filenames = <<>>

\* no record written
NoIso == [path |-> "none", editionId |-> NoDate, iso |-> <<>>]

IsoIdle ==
    /\ run_now = NoneV
    /\ datePublished = NoneV
    /\ iso_record = NoIso

\* no page fetched
FetchIdle ==
    /\ page_fetches = <<>>
    /\ fetch_reports = <<>>

\* the insert was not reached
NoRecord == [stored |-> FALSE, captionStr |-> NoString, kickerStr |-> NoString]

\* store_in_weaviate not called
NoStoreCall ==
    [stored |-> FALSE, captionStr |-> NoString, kickerStr |-> <<"no call">>]

BodyIdle ==
    /\ page_info = NoneV
    /\ html_record = NoStoreCall

\* the selector was not evaluated
NotRun == [ran |-> FALSE, raised |-> FALSE, dates |-> {}]

WinIdle ==
    /\ number = 0
    /\ window_now = NoneV
    /\ windows = [sd2 |-> NotRun, scrapedirectus |-> NotRun]

NoScrape == [pc |-> "idle", max_retries |-> 0, next_url |-> 0,
             page_count |-> 0, retry_count |-> 0, processed |-> {}]

NoAttempt == [n |-> 0, url |-> 0, outcome |-> "none"]

RetryIdle ==
    /\ scraper = NoScrape
    /\ failed_attempts = 0
    /\ attempted = NoAttempt

NoRange == [prog |-> "none", pc |-> "idle", newest |-> 0, oldest |-> 0,
            current_date |-> 0]

RangeIdle ==
    /\ range_run = NoRange
    /\ visited = <<>>

NoExtractor == [pc |-> "idle", model_name |-> NoString, todo |-> {},
                outcomes |-> <<>>]

EnrichIdle ==
    /\ copertine = <<>>
    /\ extractor = NoExtractor

NoStored ==
    [path |-> "none", editionId |-> <<>>, editionDateIsoStr |-> <<>>,
     editionImageFnStr |-> <<>>]

KeyIdle ==
    /\ edition = NoneV
    /\ stored_record = NoStored

\* the programs and routes of the later sections, all but g, are not running
MoreIdle(g) ==
    /\ g # "auth" => AuthIdle
    /\ g # "download" => DlIdle
    /\ g # "slug" => SlugIdle
    /\ g # "name" => NameIdle
    /\ g # "iso" => IsoIdle
    /\ g # "fetch" => FetchIdle
    /\ g # "body" => BodyIdle
    /\ g # "window" => WinIdle
    /\ g # "retry" => RetryIdle
    /\ g # "range" => RangeIdle
    /\ g # "enrich" => EnrichIdle
    /\ g # "key" => KeyIdle

\* the other programs of the repository are not running
OthersIdle ==
    /\ GapIdle
    /\ PageIdle
    /\ MigrIdle
    /\ MoreIdle("none")

\* a new deployment: empty collection, empty images directory
InitRun ==
    /\ prog = "none"
    /\ mode = "none"
    /\ status = "idle"
    /\ todo = <<>>
    /\ articles = 0
    /\ articleRange = {}
    /\ processed_edition_ids = {}
    /\ last = NoLast
    /\ weaviate_client = "none"
    /\ exit_code = NoExit

Init ==
    /\ store = {}
    /\ disk = {}
    /\ nextAuto = 0
    /\ budget = MaxSteps
    /\ kickers = Kickers
    /\ InitRun
    /\ OthersIdle

Next ==
    \/ Sd2_main
    \/ Sd2_process_date
    \/ Sdir_main
    \/ Sdir_fetch
    \/ Sdir_article
    \/ S2_main
    \/ S2_date
    \/ SDate_main
    \/ SDate_date
    \/ RunCompleted

Spec == Init /\ [][Next]_vars

\* a collection that earlier runs left with n objects of the first date under
\* n different generated ids; one more item is processed
MaxStale == QueryLimit + 1

StaleStore(n) ==
    {Obj(uuid4(i), Data(1, "h1", ImageFn(1, "h1"))) : i \in 1..n}

InitStale ==
    /\ \E n \in 1..MaxStale :
          /\ store = StaleStore(n)
          /\ nextAuto = n
    /\ disk = {ImageFn(1, "h1")}
    /\ budget = 1
    /\ kickers = Kickers
    /\ InitRun
    /\ OthersIdle

SpecStale == InitStale /\ [][Next]_vars

\* a collection with up to MaxGateStale objects of the first date, a CMS whose
\* articles may lack the kicker; one item is processed
MaxGateStale == 2

InitGate ==
    /\ \E n \in 0..MaxGateStale :
          /\ store = StaleStore(n)
          /\ nextAuto = n
          /\ disk = IF n = 0 THEN {} ELSE {ImageFn(1, "h1")}
    /\ budget = 1
    /\ kickers = Kickers \cup {NoneV}
    /\ InitRun
    /\ OthersIdle

SpecGate == InitGate /\ [][Next]_vars

\* no ingestion run: empty collection, no process
PipelineIdle ==
    /\ store = {}
    /\ disk = {}
    /\ nextAuto = 0
    /\ budget = 0
    /\ kickers = Kickers
    /\ InitRun

\* ------------------------------------------------------------ missingdates.py
\* Dates are day numbers 1..MaxDay of a calendar whose day 1 is a Monday, with
\* months of MonthLen days and years of YearMonths months.
MaxDay == 8         \* the days existing dates and today are drawn from
MaxExisting == 2    \* dates in the collection
MaxIgnored == 1     \* holiday strings given to find_missing_dates
MonthLen == 2
YearMonths == 2
DaysPerWeek == 7
Monday == 1         \* isoweekday() of a Monday

\* date.isoweekday()
isoweekday(d) == ((d - 1) % DaysPerWeek) + 1

\* date.day and date.month
DayOf(d) == ((d - 1) % MonthLen) + 1

MonthOf(d) == (((d - 1) \div MonthLen) % YearMonths) + 1

\* the holiday strings: "DD/MM" splits into two numbers, a string without or
\* with two "/" into one or three
IgnoredStrs ==
    {<<d, m>> : d \in 1..MonthLen, m \in 1..YearMonths}
    \cup {<<d>> : d \in 1..MonthLen}
    \cup {<<d, d, d>> : d \in 1..MonthLen}

\* day, month = map(int, date_str.split("/")): a string that does not give
\* two numbers raises ValueError and is left out with a warning
ParseIgnored(strs) == {<<s[1], s[2]>> : s \in {x \in strs : Len(x) = 2}}

\* the while loop of find_missing_dates from current_date on
RECURSIVE WalkDays(_, _, _, _)
WalkDays(current_date, until, existing, ignored_dates) ==
    IF current_date > until THEN <<>>
    ELSE (IF /\ isoweekday(current_date) # Monday
             /\ <<DayOf(current_date), MonthOf(current_date)>> \notin ignored_dates
             /\ current_date \notin existing
          THEN <<current_date>> ELSE <<>>)
         \o WalkDays(current_date + 1, until, existing, ignored_dates)

\* min(existing_dates)
MinDate(S) == CHOOSE x \in S : \A y \in S : x <= y

\* find_missing_dates that does not look at the holidays (the behaviour
\* GapDetection rules out)
find_missing_dates_no_holidays(existing, strs, now) ==
    IF existing = {} THEN <<>>
    ELSE WalkDays(MinDate(existing), now, existing, {})

\* find_missing_dates(existing_dates, ignored_dates_str), with now the date
\* datetime.now().date() gives
find_missing_dates(existing, strs, now) ==
    IF existing = {} THEN <<>>
    ELSE WalkDays(MinDate(existing), now, existing, ParseIgnored(strs))

\* main calls find_missing_dates; the call is made for the empty set too
Gap_find_missing_dates ==
    /\ missing_dates = NoResult
    /\ missing_dates' =
          find_missing_dates(existing_dates, ignored_dates_str, today)
    /\ UNCHANGED <<store, disk, nextAuto, prog, mode, status, todo, articles,
                   articleRange, processed_edition_ids, last, budget,
                   weaviate_client, exit_code, kickers,
                   existing_dates, ignored_dates_str, today,
                   pageVars, migrVars, moreVars>>

InitGap ==
    /\ existing_dates \in
          {E \in SUBSET (1..MaxDay) : Cardinality(E) <= MaxExisting}
    /\ ignored_dates_str \in
          {I \in SUBSET IgnoredStrs : Cardinality(I) <= MaxIgnored}
    /\ today \in 1..MaxDay
    /\ missing_dates = NoResult
    /\ PipelineIdle
    /\ PageIdle
    /\ MigrIdle
    /\ MoreIdle("none")

NextGap == Gap_find_missing_dates

SpecGap == InitGap /\ [][NextGap]_vars

\* ------------------------------------------------------------ scrape2.py, page
MaxBlocks == 2      \* article.PostCard blocks of a page

\* the src of an img that match
\* "img[src*='static.ilmanifesto.it'], img[src*='/cdn-cgi/image']"
CdnSrcs == {"https://static.ilmanifesto.it/a.jpg", "/cdn-cgi/image/b.jpg"}

\* what div.w-full.overflow-hidden.order-1 of a block holds: NoneV when the
\* block has no such div, "no_img" when the div has no img, else the src of
\* its img
Containers == CdnSrcs \cup {"https://example.org/c.jpg", "no_img", NoneV}

\* a block: the image container, whether an img with a CDN src stands outside
\* the container, whether it has the category link a.text-red-500, its
\* heading tag
Blocks ==
    [img_container : Containers, img_outside : BOOLEAN, category : BOOLEAN,
     heading : {"h3", "h2", NoneV}]

\* _has_required_elements
has_required_elements(article) ==
    /\ article.img_container # NoneV
    /\ article.img_container \in CdnSrcs
    /\ article.category
    /\ article.heading = "h3"

\* the loop of _find_main_article over articles[i..]
RECURSIVE FindFrom(_, _)
FindFrom(blocks, i) ==
    IF i > Len(blocks) THEN NoMain
    ELSE IF ~has_required_elements(blocks[i]) THEN FindFrom(blocks, i + 1)
    ELSE i

\* "always take the first article" (the behaviour MainArticleSelection rules
\* out)
find_main_article_first(blocks) ==
    IF blocks = <<>> THEN NoMain ELSE 1

\* _find_main_article
find_main_article(blocks) == FindFrom(blocks, 1)

\* extract_page_info up to the choice of the main article
Page_extract_page_info ==
    /\ main_article = NotScanned
    /\ main_article' = find_main_article(page_articles)
    /\ UNCHANGED <<store, disk, nextAuto, prog, mode, status, todo, articles,
                   articleRange, processed_edition_ids, last, budget,
                   weaviate_client, exit_code, kickers, gapVars, migrVars,
                   page_articles, moreVars>>

InitPage ==
    /\ page_articles \in UNION {[1..n -> Blocks] : n \in 0..MaxBlocks}
    /\ main_article = NotScanned
    /\ PipelineIdle
    /\ GapIdle
    /\ MigrIdle
    /\ MoreIdle("none")

NextPage == Page_extract_page_info

SpecPage == InitPage /\ [][NextPage]_vars

\* ------------------------------------------------------------ travasa.py
MaxOld == 2         \* objects in the old collection
MaxRuns == 2        \* runs of the migration

\* _object_exists_in_new_collection answering False when the lookup fails (the
\* behaviour MigrationWithoutDuplicates rules out)
object_exists_assume_absent(new, edition_id) ==
    {[exists |-> FALSE, check |-> "error"],
     [exists |-> KeyRecs(new, edition_id) # {},
      check |-> IF KeyRecs(new, edition_id) # {} THEN "present" ELSE "absent"]}

\* _object_exists_in_new_collection: the possible answers; a lookup that
\* fails answers True
object_exists_in_new_collection(new, edition_id) ==
    {[exists |-> TRUE, check |-> "error"],
     [exists |-> KeyRecs(new, edition_id) # {},
      check |-> IF KeyRecs(new, edition_id) # {} THEN "present" ELSE "absent"]}

\* total_objects += 1 and, on the branch the object takes, one of
\* existing_objects, migrated_objects, failed_objects += 1
counted(stats, branch) ==
    [stats EXCEPT !.total = @ + 1, ![branch] = @ + 1]

\* the branch of an object without editionId leaving failed_objects alone
skipped_no_edition_id_uncounted(stats) ==
    [stats EXCEPT !.total = @ + 1]

\* if not edition_id: failed_objects += 1; continue
skipped_no_edition_id(stats) == counted(stats, "failed")

\* main: the migrator is constructed and connects to the two instances, or
\* the connection fails and main exits with 1
Migr_main ==
    /\ migr.status # "running" /\ migr.run < MaxRuns
    /\ \E st \in {"running", "aborted"} :
          migr' = [migr EXCEPT !.status = st, !.run = migr.run + 1, !.pos = 1,
                               !.check = "none", !.inserted = FALSE,
                               !.stats = NoMigration.stats]
    /\ UNCHANGED <<store, disk, nextAuto, prog, mode, status, todo, articles,
                   articleRange, processed_edition_ids, last, budget,
                   weaviate_client, exit_code, kickers, gapVars, pageVars,
                   old_collection, new_collection, moreVars>>

\* migrate_data, one iteration of the loop over old_collection.iterator():
\* the iterator raises, the object has no editionId, the object is found (or
\* the lookup fails) in the new collection, or it is inserted, which can fail
Migr_object ==
    /\ migr.status = "running" /\ migr.pos <= Len(old_collection)
    /\ LET edition_id == old_collection[migr.pos]
           next == [migr EXCEPT !.pos = migr.pos + 1, !.inserted = FALSE]
       IN \/ /\ migr' = [migr EXCEPT !.status = "aborted", !.check = "none",
                                     !.inserted = FALSE]
             /\ UNCHANGED new_collection
          \/ /\ edition_id = NoDate
             /\ migr' = [next EXCEPT
                         !.check = "no_id",
                         !.stats = skipped_no_edition_id(migr.stats)]
             /\ UNCHANGED new_collection
          \/ /\ edition_id # NoDate
             /\ \E ans \in object_exists_in_new_collection(new_collection,
                                                           edition_id) :
                   IF ans.exists
                   THEN /\ migr' = [next EXCEPT
                                    !.check = ans.check,
                                    !.stats = counted(migr.stats, "existing")]
                        /\ UNCHANGED new_collection
                   ELSE \/ /\ new_collection' = new_collection \cup
                                  {[id |-> uuid4(migr.auto + 1),
                                    editionId |-> edition_id]}
                           /\ migr' = [next EXCEPT
                                       !.check = ans.check,
                                       !.inserted = TRUE,
                                       !.auto = migr.auto + 1,
                                       !.stats = counted(migr.stats,
                                                         "migrated")]
                        \/ /\ migr' = [next EXCEPT
                                       !.check = ans.check,
                                       !.stats = counted(migr.stats, "failed")]
                           /\ UNCHANGED new_collection
    /\ UNCHANGED <<store, disk, nextAuto, prog, mode, status, todo, articles,
                   articleRange, processed_edition_ids, last, budget,
                   weaviate_client, exit_code, kickers, gapVars, pageVars,
                   old_collection, moreVars>>

\* migrate_data returns its statistics and main ends
Migr_end ==
    /\ migr.status = "running" /\ migr.pos > Len(old_collection)
    /\ migr' = [migr EXCEPT !.status = "done",
                            !.completed = migr.completed + 1]
    /\ UNCHANGED <<store, disk, nextAuto, prog, mode, status, todo, articles,
                   articleRange, processed_edition_ids, last, budget,
                   weaviate_client, exit_code, kickers, gapVars, pageVars,
                   old_collection, new_collection, moreVars>>

\* the old collection holds up to MaxOld objects, with any edition ids or
\* none; the new collection is empty or holds an object of the first date
InitMigr ==
    /\ old_collection \in
          UNION {[1..n -> Keys \cup {NoDate}] : n \in 0..MaxOld}
    /\ new_collection \in {{}, {[id |-> uuid4(0), editionId |-> 1]}}
    /\ migr = NoMigration
    /\ PipelineIdle
    /\ GapIdle
    /\ PageIdle
    /\ MoreIdle("none")

NextMigr ==
    \/ Migr_main
    \/ Migr_object
    \/ Migr_end

SpecMigr == InitMigr /\ [][NextMigr]_vars

\* ------------------------------------------------------------ routes/auth.py
MaxRequests == 3    \* requests answered in one behaviour
MaxHours == 48      \* hours the clock runs

VERIFICATION_TOKEN_EXPIRE_HOURS == 24

MinPasswordLen == 8

ALLOWED_DOMAINS == {"manifesto.it", "isagog.com"}

Emails ==
    {[local |-> "a", domain |-> "manifesto.it"],
     [local |-> "b", domain |-> "isagog.com"],
     [local |-> "c", domain |-> "example.org"]}

\* passwords are strings of one letter
Pw(n, c) == [i \in 1..n |-> c]

Passwords ==
    {Pw(MinPasswordLen, "x"), Pw(MinPasswordLen, "y"),
     Pw(MinPasswordLen - 1, "x")}

\* UserBase.validate_email_domain
validate_email_domain(v) == v.domain \in ALLOWED_DOMAINS

\* UserCreate.validate_password
validate_password(v) == Len(v) >= MinPasswordLen

get_password_hash(password) == <<"hash", password>>

verify_password(plain_password, hashed_password) ==
    hashed_password = get_password_hash(plain_password)

\* a new row of users: is_active has the default of the column
User(email, password) ==
    [email |-> email, hashed_password |-> get_password_hash(password),
     is_active |-> FALSE]

\* secrets.token_urlsafe(32): a token no row has yet
token_urlsafe(verifications) == Cardinality(verifications) + 1

\* create_verification_token: used has the default of the column
create_verification_token(user_id, verifications, now) ==
    [user_id |-> user_id, token |-> token_urlsafe(verifications),
     expires_at |-> now + VERIFICATION_TOKEN_EXPIRE_HOURS, used |-> FALSE]

\* the tokens a client can submit: the ones issued, and one never issued
Tokens == 0..Cardinality({e \in Emails : validate_email_domain(e)})

Answer(op, code, arg) ==
    [n |-> response.n + 1, op |-> op, status_code |-> code, arg |-> arg]

\* the query of verify_email without the test of used
find_verification_any_use(verifications, token, now) ==
    {v \in verifications : v.token = token /\ v.expires_at > now}

\* the query of verify_email: the rows of the token, not used, not expired
find_verification(verifications, token, now) ==
    {v \in verifications :
        v.token = token /\ ~v.used /\ v.expires_at > now}

\* POST /auth/register.  The user row and the token row are committed one
\* after the other and the mail is sent last; whatever raises is answered 400
Auth_register ==
    /\ response.n < MaxRequests
    /\ \E email \in Emails, password \in Passwords :
          IF ~(validate_email_domain(email) /\ validate_password(password))
          THEN /\ response' = Answer("register", 422, email)
               /\ UNCHANGED <<users, email_verifications>>
          ELSE IF \E u \in users : u.email = email
          THEN /\ response' = Answer("register", 400, email)
               /\ UNCHANGED <<users, email_verifications>>
          ELSE LET db_user == User(email, password)
                   verification ==
                       create_verification_token(email, email_verifications,
                                                 utcnow)
               IN \/ /\ response' = Answer("register", 400, email)
                     /\ UNCHANGED <<users, email_verifications>>
                  \/ /\ response' = Answer("register", 400, email)
                     /\ users' = users \cup {db_user}
                     /\ UNCHANGED email_verifications
                  \/ /\ \E code \in {200, 400} :
                           response' = Answer("register", code, email)
                     /\ users' = users \cup {db_user}
                     /\ email_verifications' =
                           email_verifications \cup {verification}
    /\ UNCHANGED <<notAuth, utcnow>>

\* POST /auth/verify-email
Auth_verify_email ==
    /\ response.n < MaxRequests
    /\ \E token \in Tokens :
          LET found == find_verification(email_verifications, token, utcnow)
          IN IF found = {}
             THEN /\ response' = Answer("verify-email", 400, token)
                  /\ UNCHANGED <<users, email_verifications>>
             ELSE \E verification \in found :
                    IF ~\E u \in users : u.email = verification.user_id
                    THEN /\ response' = Answer("verify-email", 400, token)
                         /\ UNCHANGED <<users, email_verifications>>
                    ELSE \/ /\ response' = Answer("verify-email", 200, token)
                            /\ users' =
                                 {IF u.email = verification.user_id
                                  THEN [u EXCEPT !.is_active = TRUE]
                                  ELSE u : u \in users}
                            /\ email_verifications' =
                                 (email_verifications \ {verification}) \cup
                                 {[verification EXCEPT !.used = TRUE]}
                         \/ /\ response' = Answer("verify-email", 500, token)
                            /\ UNCHANGED <<users, email_verifications>>
    /\ UNCHANGED <<notAuth, utcnow>>

\* POST /auth/login
Auth_login ==
    /\ response.n < MaxRequests
    /\ \E email \in Emails, password \in Passwords :
          LET user == {u \in users : u.email = email}
          IN response' =
               IF \/ user = {}
                  \/ \E u \in user :
                        ~verify_password(password, u.hashed_password)
               THEN Answer("login", 401, email)
               ELSE IF \E u \in user : ~u.is_active
               THEN Answer("login", 401, email)
               ELSE Answer("login", 200, email)
    /\ UNCHANGED <<notAuth,
                   users, email_verifications, utcnow>>

\* time passes between two requests: the lifetime of a token, or one hour
\* less
Auth_clock ==
    /\ \E h \in {VERIFICATION_TOKEN_EXPIRE_HOURS - 1,
                  VERIFICATION_TOKEN_EXPIRE_HOURS} :
          /\ utcnow + h <= MaxHours
          /\ utcnow' = utcnow + h
    /\ UNCHANGED <<notAuth,
                   users, email_verifications, response>>

InitAuth ==
    /\ AuthIdle
    /\ PipelineIdle
    /\ GapIdle
    /\ PageIdle
    /\ MigrIdle
    /\ MoreIdle("auth")

NextAuth ==
    \/ Auth_register
    \/ Auth_verify_email
    \/ Auth_login
    \/ Auth_clock

SpecAuth == InitAuth /\ [][NextAuth]_vars

\* ------------------------------------------------------------ image download
HTTP_STATUS_OK == 200

DefaultExtension == ".jpg"

ContentTypes ==
    {NoneV, "image/jpeg", "image/png", "application/x-unknown",
     "image/jpeg; charset=binary"}

\* mimetypes.guess_extension: NoneV for a type it has no extension for
guess_extension(content_type) ==
    CASE content_type = "image/jpeg" -> ".jpg"
      [] content_type = "image/png" -> ".png"
      [] OTHER -> NoneV

\* what client.get can give: a transport error, or a response with a status,
\* a content-type header or none; write_ok: the file can be written
HttpResponses ==
    {[raises |-> "RequestError", status_code |-> 0, content_type |-> NoneV,
      write_ok |-> FALSE]}
    \cup [raises : {"none"}, status_code : {HTTP_STATUS_OK, 204, 404},
          content_type : ContentTypes, write_ok : BOOLEAN]

\* response.raise_for_status() raises HTTPStatusError
raise_for_status(r) == r.status_code >= 400

Returned(p, outcome, name) ==
    [prog |-> p, outcome |-> outcome, name |-> name]

\* scrapedirectus.download_directus_image: only httpx.RequestError is caught
download_directus_image(r, filename) ==
    IF r.raises = "RequestError"
    THEN Returned("scrapedirectus", "none", NoneV)
    ELSE IF raise_for_status(r)
    THEN Returned("scrapedirectus", "raised", NoneV)
    ELSE IF r.status_code # HTTP_STATUS_OK
    THEN Returned("scrapedirectus", "none", NoneV)
    ELSE IF r.content_type = NoneV
    THEN Returned("scrapedirectus", "none", NoneV)
    ELSE LET guessed == guess_extension(r.content_type)
             extension ==
                 IF guessed = NoneV THEN DefaultExtension ELSE guessed
         IN IF r.write_ok
            THEN Returned("scrapedirectus", "saved", <<filename, extension>>)
            ELSE Returned("scrapedirectus", "none", NoneV)

\* sd2._download_image: every exception is caught
Sd2_download_image(r, base) ==
    IF r.raises = "RequestError" \/ raise_for_status(r)
    THEN Returned("sd2", "none", NoneV)
    ELSE IF r.status_code # HTTP_STATUS_OK
    THEN Returned("sd2", "none", NoneV)
    ELSE LET guessed ==
                 IF r.content_type = NoneV
                 THEN NoneV ELSE guess_extension(r.content_type)
             extension ==
                 IF guessed = NoneV THEN DefaultExtension ELSE guessed
         IN IF r.write_ok
            THEN Returned("sd2", "saved", <<base, extension>>)
            ELSE Returned("sd2", "none", NoneV)

Dl_download_directus_image ==
    /\ downloaded = NoDownload
    /\ downloaded' = download_directus_image(http_response, base_filename)
    /\ UNCHANGED <<notDl, http_response, base_filename>>

Dl_download_image ==
    /\ downloaded = NoDownload
    /\ downloaded' = Sd2_download_image(http_response, base_filename)
    /\ UNCHANGED <<notDl, http_response, base_filename>>

InitDl ==
    /\ http_response \in HttpResponses
    /\ base_filename \in {ImageFn(d, h) : d \in Keys, h \in Headlines}
    /\ downloaded = NoDownload
    /\ PipelineIdle
    /\ GapIdle
    /\ PageIdle
    /\ MigrIdle
    /\ MoreIdle("download")

NextDl ==
    \/ Dl_download_directus_image
    \/ Dl_download_image

SpecDl == InitDl /\ [][NextDl]_vars

\* ------------------------------------------------------------ slugify
MaxText == 3        \* characters of a text

\* a letter, a capital, a digit, a space, the hyphen, the underscore and a
\* punctuation mark
Chars == {"a", "B", "7", " ", "-", "_", "!"}

Texts == UNION {[1..n -> Chars] : n \in 0..MaxText}

\* str.lower, one character
LowerChar(c) == IF c = "B" THEN "b" ELSE c

lower(s) == [i \in 1..Len(s) |-> LowerChar(s[i])]

\* the characters the pattern [\s\W] does not match: \w is letters, digits
\* and the underscore
WordChars == {"a", "b", "B", "7", "_"}

RECURSIVE SkipNonWord(_)
SkipNonWord(s) ==
    IF s = <<>> \/ Head(s) \in WordChars THEN s ELSE SkipNonWord(Tail(s))

\* re.sub(r'[\s\W]+', '-', s): every maximal run of matching characters
\* becomes one hyphen
RECURSIVE sub_nonword(_)
sub_nonword(s) ==
    IF s = <<>> THEN <<>>
    ELSE IF Head(s) \in WordChars
    THEN <<Head(s)>> \o sub_nonword(Tail(s))
    ELSE <<"-">> \o sub_nonword(SkipNonWord(Tail(s)))

RECURSIVE lstrip(_, _)
lstrip(s, chars) ==
    IF s # <<>> /\ Head(s) \in chars THEN lstrip(Tail(s), chars) ELSE s

RECURSIVE rstrip(_, _)
rstrip(s, chars) ==
    IF s # <<>> /\ s[Len(s)] \in chars
    THEN rstrip(SubSeq(s, 1, Len(s) - 1), chars) ELSE s

strip(s, chars) == rstrip(lstrip(s, chars), chars)

\* slugify (scrapedirectus) and _slugify (sd2), the same three lines
slugify(t) == strip(sub_nonword(lower(t)), {"-"})

Slug_slugify ==
    /\ slug = NoString
    /\ slug' = slugify(text)
    /\ UNCHANGED <<notSlug, text>>

InitSlug ==
    /\ text \in Texts
    /\ slug = NoString
    /\ PipelineIdle
    /\ GapIdle
    /\ PageIdle
    /\ MigrIdle
    /\ MoreIdle("slug")

NextSlug == Slug_slugify

SpecSlug == InitSlug /\ [][NextSlug]_vars

\* ------------------------------------------------------------ file names
\* image URLs: the host part the patterns look for, whether the path starts
\* with /YYYY/MM/DD, and the path segments after it
Urls ==
    [host : {"https://static.ilmanifesto.it/",
             "/cdn-cgi/image/w=1/https://static.ilmanifesto.it/",
             "https://example.org/"},
     dated : BOOLEAN,
     path : {<<"a.jpg">>, <<"x", "b.jpg">>}]

HeadlineTexts == {<<>>, <<"a">>, <<"B", " ", "a">>}

\* the year and the month of the dates of the model
Year == 2024

Month == 1

\* scrape2.transform_image_url_to_filename: date_str is DD-MM-YYYY; the part
\* of the URL after the host (and after the date, if it has one), "/"
\* replaced by "-"; "" when neither pattern matches
Html_transform_image_url_to_filename(image_url, date_str) ==
    IF image_url.host = "https://example.org/" THEN <<>>
    ELSE LET image_path ==
                 IF image_url.dated
                 THEN <<"">> \o image_url.path ELSE image_url.path
             formatted_date == <<date_str[3], date_str[2], date_str[1]>>
         IN <<"il-manifesto", formatted_date, image_path>>

\* the file name of scrapedirectus with the parts of date_str taken in the
\* order scrape2 takes them
Sdir_transform_image_url_to_filename_dmy(article, date_str) ==
    IF article.headline = <<>>
    THEN <<article.image.path[Len(article.image.path)]>>
    ELSE LET formatted_date == <<date_str[3], date_str[2], date_str[1]>>
         IN <<"il-manifesto", formatted_date, slugify(article.headline)>>

\* scrapedirectus.transform_image_url_to_filename: date_str is YYYY-MM-DD; the
\* slug of the headline, or the last segment of the asset URL when the article
\* has no headline
Sdir_transform_image_url_to_filename(article, date_str) ==
    IF article.headline = <<>>
    THEN <<article.image.path[Len(article.image.path)]>>
    ELSE LET formatted_date == <<date_str[1], date_str[2], date_str[3]>>
         IN <<"il-manifesto", formatted_date, slugify(article.headline)>>

\* the name an edition's image gets: scrape2 names the image of the page;
\* scrapedirectus names it after _validate_article accepted the headline
NameOf(ed) ==
    IF ed.source = "html"
    THEN Html_transform_image_url_to_filename(ed.image,
                                              <<ed.date, Month, Year>>)
    ELSE IF ed.headline = <<>> THEN <<"skipped">>
    ELSE Sdir_transform_image_url_to_filename(ed, <<Year, Month, ed.date>>)

Name_transform_image_url_to_filename ==
    /\ filenames = <<>>
    /\ filenames' = <<NameOf(editions[1]), NameOf(editions[2])>>
    /\ UNCHANGED <<notName, editions>>

InitName ==
    /\ \E s \in {"html", "cms"} :
          editions \in
             [1..2 -> [source : {s}, date : Keys, headline : HeadlineTexts,
                       image : Urls]]
    /\ filenames = <<>>
    /\ PipelineIdle
    /\ GapIdle
    /\ PageIdle
    /\ MigrIdle
    /\ MoreIdle("name")

NextName == Name_transform_image_url_to_filename

SpecName == InitName /\ [][NextName]_vars

\* ------------------------------------------------------------ editionDateIsoStr
\* hours of the day
Times == {0, 9, 23}

UTC == "+00:00"

\* date - timedelta(days=i)
timedelta_days(date, i) == [date EXCEPT !.day = date.day - i]

\* sd2._parse_single_date: strptime(date_str + " +0000", "%Y-%m-%d %z")
parse_single_date(d) == [day |-> d, time |-> 0, tz |-> UTC]

\* datetime.isoformat(): the date, the time of day, the offset if it has one
isoformat(date) == <<date.day, date.time, date.tz>>

IsoWritten(path, edition_id, iso_date) ==
    [path |-> path, editionId |-> edition_id, iso |-> iso_date]

\* scrape2.store_in_weaviate: DD-MM-YYYY turned into YYYY-MM-DDT00:00:00Z
Iso_scrape2 ==
    /\ iso_record = NoIso
    /\ \E date \in Keys :
          iso_record' = IsoWritten("scrape2", date, <<date, 0, "Z">>)
    /\ UNCHANGED <<notIso, run_now, datePublished>>

\* scrape_date.store_in_weaviate, the same lines
Iso_scrape_date ==
    /\ iso_record = NoIso
    /\ \E date \in Keys :
          iso_record' = IsoWritten("scrape_date", date, <<date, 0, "Z">>)
    /\ UNCHANGED <<notIso, run_now, datePublished>>

\* sd2 -n: _generate_date_range gives now - i days, _store_in_weaviate writes
\* date.isoformat()
Iso_sd2_number ==
    /\ iso_record = NoIso
    /\ \E n \in 1..MaxItems : \E i \in 0..(n - 1) :
          LET date == timedelta_days(run_now, i)
          IN iso_record' = IsoWritten("sd2 -n", date.day, isoformat(date))
    /\ UNCHANGED <<notIso, run_now, datePublished>>

\* sd2 --date and --datefile: _parse_single_date, date.isoformat()
Iso_sd2_date ==
    /\ iso_record = NoIso
    /\ \E m \in {"sd2 --date", "sd2 --datefile"}, d \in Keys :
          LET date == parse_single_date(d)
          IN iso_record' = IsoWritten(m, date.day, isoformat(date))
    /\ UNCHANGED <<notIso, run_now, datePublished>>

\* scrapedirectus.store_in_weaviate, every selector:
\* datetime.fromisoformat(article["datePublished"]).isoformat()
Iso_scrapedirectus ==
    /\ iso_record = NoIso
    /\ \E m \in {"scrapedirectus -n", "scrapedirectus --date",
                  "scrapedirectus --datefile"} :
          iso_record' =
             IsoWritten(m, datePublished.day, isoformat(datePublished))
    /\ UNCHANGED <<notIso, run_now, datePublished>>

InitIso ==
    /\ run_now \in [day : {Today}, time : Times, tz : {UTC}]
    /\ datePublished \in
          [day : Keys, time : Times, tz : {UTC, "+02:00", NoneV}]
    /\ iso_record = NoIso
    /\ PipelineIdle
    /\ GapIdle
    /\ PageIdle
    /\ MigrIdle
    /\ MoreIdle("iso")

NextIso ==
    \/ Iso_scrape2
    \/ Iso_scrape_date
    \/ Iso_sd2_number
    \/ Iso_sd2_date
    \/ Iso_scrapedirectus

SpecIso == InitIso /\ [][NextIso]_vars

\* ------------------------------------------------------------ scrape2.py, fetch
NoResponseV == [raises |-> TRUE, status_code |-> 0, main |-> FALSE]

\* what client.get(url) gives for the page of a date: a transport error, or
\* a response with a status; main: the page has a main article with an image
PageResponses ==
    {NoResponseV}
    \cup [raises : {FALSE}, status_code : {HTTP_STATUS_OK, 404},
          main : BOOLEAN]

\* one date: the answer to the first get, whether the collection has the
\* edition, the answer to the second get
PageFetches ==
    [first : PageResponses, in_collection : BOOLEAN, second : PageResponses]

\* check_url_exists: False for a transport error and for a status other
\* than 200
check_url_exists(r) == ~r.raises /\ r.status_code = HTTP_STATUS_OK

\* check_and_get_edition: (should_process, response)
check_and_get_edition(f) ==
    IF ~check_url_exists(f.first) THEN <<FALSE, NoResponseV>>
    ELSE IF f.in_collection THEN <<FALSE, NoResponseV>>
    ELSE IF f.second.raises THEN <<FALSE, NoResponseV>>
    ELSE <<TRUE, f.second>>

\* the body of the loop of fetch_manifesto_edition_data for one date: what
\* check_and_get_edition returned and the branch taken
edition_report(f) ==
    LET got == check_and_get_edition(f)
    IN [should_process |-> got[1],
        response |-> IF got[2] = NoResponseV THEN NoneV ELSE "Response",
        branch |-> IF ~got[1] THEN "next_date"
                   ELSE IF got[2].main THEN "process"
                   ELSE "no_article_content"]

Fetch_check_and_get_edition ==
    /\ fetch_reports = <<>>
    /\ fetch_reports' =
          <<edition_report(page_fetches[1]), edition_report(page_fetches[2])>>
    /\ UNCHANGED <<notFetch, page_fetches>>

InitFetch ==
    /\ page_fetches \in [1..2 -> PageFetches]
    /\ fetch_reports = <<>>
    /\ PipelineIdle
    /\ GapIdle
    /\ PageIdle
    /\ MigrIdle
    /\ MoreIdle("fetch")

NextFetch == Fetch_check_and_get_edition

SpecFetch == InitFetch /\ [][NextFetch]_vars

\* ------------------------------------------------------------ scrape2.py, body
MaxBody == 3        \* characters of a body text

Whitespace == {" "}

\* a letter of the title, a letter of the author, a space, another letter
BodyChars == {"t", "a", " ", "x"}

\* extract_page_info: a text, or None (NoString) when the element is absent
Titles == {NoString, <<>>, <<"t">>}

Authors == {NoString, <<>>, <<"a">>}

Bodies == {NoString} \cup UNION {[1..n -> BodyChars] : n \in 0..MaxBody}

\* bool(s) of a string or None
Truthy(s) == s # NoString /\ s # <<>>

startswith(s, prefix) ==
    Len(prefix) <= Len(s) /\ SubSeq(s, 1, Len(prefix)) = prefix

\* body[len(prefix):].lstrip()
cut_prefix(s, prefix) ==
    lstrip(SubSeq(s, Len(prefix) + 1, Len(s)), Whitespace)

\* store_in_weaviate, the lines from page_info.get to the insert: the keys
\* are always there, so get gives None for an absent element;
\* body.startswith on None raises AttributeError and nothing is stored
Html_store_caption_kicker(info) ==
    LET title == info.title
        author == info.author
        body == info.body
    IN IF Truthy(title) /\ body = NoString THEN NoRecord
       ELSE LET body1 ==
                    IF Truthy(title) /\ startswith(body, title)
                    THEN cut_prefix(body, title) ELSE body
            IN IF Truthy(author) /\ body1 = NoString THEN NoRecord
               ELSE LET body2 ==
                            IF Truthy(author) /\ startswith(body1, author)
                            THEN cut_prefix(body1, author) ELSE body1
                    IN [stored |-> TRUE, captionStr |-> title,
                        kickerStr |-> body2]

Body_store_in_weaviate ==
    /\ html_record = NoStoreCall
    /\ html_record' = Html_store_caption_kicker(page_info)
    /\ UNCHANGED <<notBody, page_info>>

InitBody ==
    /\ page_info \in [title : Titles, author : Authors, body : Bodies]
    /\ html_record = NoStoreCall
    /\ PipelineIdle
    /\ GapIdle
    /\ PageIdle
    /\ MigrIdle
    /\ MoreIdle("body")

NextBody == Body_store_in_weaviate

SpecBody == InitBody /\ [][NextBody]_vars

\* ------------------------------------------------------------ the -n window
MaxNumber == 3      \* the largest day count given with -n

\* type=int accepts every integer
Numbers == (0 - 1)..MaxNumber

\* the instants a datePublished can have around the window: a date and an
\* hour of it
Stamps(now) ==
    ((now.day - MaxNumber - 1)..(now.day + MaxNumber + 1)) \X Times

\* comparison of two instants
StampLeq(a, b) == a[1] < b[1] \/ (a[1] = b[1] /\ a[2] <= b[2])

\* the filter datePublished _gte start T00:00:00, _lte end T23:59:59: the
\* dates it lets through
Queried(now, start_date, end_date) ==
    {s[1] : s \in {x \in Stamps(now) :
                      /\ StampLeq(<<start_date.day, 0>>, x)
                      /\ StampLeq(x, <<end_date.day, 23>>)}}

Ran(raised, dates) == [ran |-> TRUE, raised |-> raised, dates |-> dates]

\* sd2._generate_date_range: today - i days for i in range(number_of_days)
generate_date_range(now, number_of_days) ==
    [i \in 1..number_of_days |-> timedelta_days(now, i - 1)]

\* sd2 -n: parse_dates_from_args gives None for -n 0 and process_copertine
\* raises; otherwise one query for each date of the list
Sd2_window(now, n) ==
    IF n = 0 THEN Ran(TRUE, {})
    ELSE LET dates == generate_date_range(now, n)
         IN Ran(FALSE, UNION {Queried(now, dates[i], dates[i]) :
                                 i \in 1..Len(dates)})

\* calculate_date_range with an off-by-one start
calculate_window_days_number(now, n) ==
    <<timedelta_days(now, n), now>>

\* scrapedirectus.calculate_date_range(number=n), n not 0
calculate_window(now, n) ==
    <<timedelta_days(now, n - 1), now>>

\* scrapedirectus -n: for -n 0 calculate_date_range returns names it never
\* bound and main exits; otherwise one query from start_date to end_date
Sdir_window(now, n) ==
    IF n = 0 THEN Ran(TRUE, {})
    ELSE LET range == calculate_window(now, n)
         IN Ran(FALSE, Queried(now, range[1], range[2]))

Win_sd2 ==
    /\ ~windows.sd2.ran
    /\ windows' = [windows EXCEPT !.sd2 = Sd2_window(window_now, number)]
    /\ UNCHANGED <<notWin, number, window_now>>

Win_scrapedirectus ==
    /\ ~windows.scrapedirectus.ran
    /\ windows' = [windows EXCEPT
                     !.scrapedirectus = Sdir_window(window_now, number)]
    /\ UNCHANGED <<notWin, number, window_now>>

InitWin ==
    /\ number \in Numbers
    /\ window_now \in [day : Keys, time : Times, tz : {UTC}]
    /\ windows = [sd2 |-> NotRun, scrapedirectus |-> NotRun]
    /\ PipelineIdle
    /\ GapIdle
    /\ PageIdle
    /\ MigrIdle
    /\ MoreIdle("window")

NextWin ==
    \/ Win_sd2
    \/ Win_scrapedirectus

SpecWin == InitWin /\ [][NextWin]_vars

\* ------------------------------------------------ scrape.py, page retries
\* largest max_retries a run is given (scrape_images defaults to 3)
MaxRetries == 3

\* pages of the archive; page 1 is base_url
MaxPages == 3

\* pages one run processes at most
MaxPageCount == 3

Pages == 1..MaxPages

base_url == 1

\* what an attempt at a page meets: requests.Timeout, any other exception
\* (raise_for_status, parsing, an exception while the images are handled),
\* a page without image tags, or a page with images
Failures == {"timeout", "error", "no_images"}

\* the while test of scrape_images
loop_test(s) == s.next_url # 0 /\ s.retry_count < s.max_retries

\* the branch for a page without images that keeps the count when it retries
on_no_images_uncounted(s) ==
    IF s.retry_count < s.max_retries - 1
    THEN s
    ELSE [s EXCEPT !.pc = "done"]

\* if not image_tags: count and continue, or break at the last retry
on_no_images(s) ==
    IF s.retry_count < s.max_retries - 1
    THEN [s EXCEPT !.retry_count = @ + 1]
    ELSE [s EXCEPT !.pc = "done"]

\* except requests.Timeout / except Exception: count, break at max_retries
on_exception(s) ==
    IF s.retry_count + 1 >= s.max_retries
    THEN [s EXCEPT !.retry_count = @ + 1, !.pc = "done"]
    ELSE [s EXCEPT !.retry_count = @ + 1]

\* a page with images: its images are handled, the retry count is reset, the
\* page is counted, and the next-page link (0: none) is followed unless it
\* leads back to base_url
on_page(s, link) ==
    LET t == [s EXCEPT !.processed = @ \cup {s.next_url},
                       !.retry_count = 0,
                       !.page_count = @ + 1]
    IN IF link # 0
       THEN IF link = base_url
            THEN [t EXCEPT !.next_url = link, !.pc = "done"]
            ELSE [t EXCEPT !.next_url = link]
       ELSE [t EXCEPT !.pc = "done"]

Attempt(url, outcome) ==
    [n |-> attempted.n + 1, url |-> url, outcome |-> outcome]

\* scrape_images(base_url, max_retries) up to the while loop
Retry_scrape_images ==
    /\ scraper.pc = "idle"
    /\ \E m \in 0..MaxRetries :
          scraper' = [pc |-> "while", max_retries |-> m, next_url |-> base_url,
                      page_count |-> 0, retry_count |-> 0, processed |-> {}]
    /\ UNCHANGED <<notRetry, failed_attempts, attempted>>

\* one pass of the loop body that ends in a failure
Retry_failed_attempt ==
    /\ scraper.pc = "while"
    /\ loop_test(scraper)
    /\ \E o \in Failures :
          /\ scraper' = IF o = "no_images" THEN on_no_images(scraper)
                        ELSE on_exception(scraper)
          /\ attempted' = Attempt(scraper.next_url, o)
    /\ failed_attempts' = failed_attempts + 1
    /\ UNCHANGED notRetry

\* one pass of the loop body over a page with images
Retry_page ==
    /\ scraper.pc = "while"
    /\ loop_test(scraper)
    /\ scraper.page_count < MaxPageCount
    /\ \E link \in 0..MaxPages :
          scraper' = on_page(scraper, link)
    /\ attempted' = Attempt(scraper.next_url, "ok")
    /\ failed_attempts' = 0
    /\ UNCHANGED notRetry

\* the while test fails: "Scraping completed", session.close()
Retry_end ==
    /\ scraper.pc = "while"
    /\ ~loop_test(scraper)
    /\ scraper' = [scraper EXCEPT !.pc = "done"]
    /\ UNCHANGED <<notRetry, failed_attempts, attempted>>

InitRetry ==
    /\ scraper = NoScrape
    /\ failed_attempts = 0
    /\ attempted = NoAttempt
    /\ PipelineIdle
    /\ GapIdle
    /\ PageIdle
    /\ MigrIdle
    /\ MoreIdle("retry")

NextRetry ==
    \/ Retry_scrape_images
    \/ Retry_failed_attempt
    \/ Retry_page
    \/ Retry_end

SpecRetry == InitRetry /\ [][NextRetry]_vars

\* ------------------------------------------------ date-range HTML runs
MaxRangeDay == 3    \* the days newest and oldest are drawn from
MaxPasses == 4      \* passes of the loop of experiments/scrape2.py followed

RangeDays == 1..MaxRangeDay

RangeRun(p, newest, oldest) ==
    [prog |-> p, pc |-> "while", newest |-> newest, oldest |-> oldest,
     current_date |-> newest]

\* while current_date >= oldest_date
range_test(r) == r.current_date >= r.oldest

Pass(date, outcome) == [date |-> date, outcome |-> outcome]

\* the body of the loop of check_manifesto_urls for one answer of
\* client.get(url): the branch taken
experiment_outcome(r) ==
    IF r.raises THEN "request_error"
    ELSE IF r.status_code # HTTP_STATUS_OK THEN "not_found"
    ELSE IF r.main THEN "page" ELSE "no_opening"

\* check_manifesto_urls: except httpx.RequestError: continue, which goes to
\* the while test without current_date -= timedelta(days=1); every other
\* branch reaches the decrement
experiment_next_date(current_date, outcome) ==
    IF outcome = "request_error" THEN current_date ELSE current_date - 1

\* scrape2.fetch_manifesto_edition_data(newest_date, oldest_date) up to the
\* loop
Range_fetch_manifesto_edition_data ==
    /\ range_run.pc = "idle"
    /\ \E newest \in RangeDays, oldest \in RangeDays :
          range_run' = RangeRun("scrape2", newest, oldest)
    /\ UNCHANGED <<notRange, visited>>

\* experiments/scrape2.check_manifesto_urls(start_date, end_date) up to the
\* loop
Range_check_manifesto_urls ==
    /\ range_run.pc = "idle"
    /\ \E start_date \in RangeDays, end_date \in RangeDays :
          range_run' = RangeRun("experiment", start_date, end_date)
    /\ UNCHANGED <<notRange, visited>>

\* one pass of the loop of fetch_manifesto_edition_data: whatever
\* check_and_get_edition returns, sleep and current_date -= timedelta(days=1)
Range_scrape2_pass ==
    /\ range_run.pc = "while" /\ range_run.prog = "scrape2"
    /\ range_test(range_run)
    /\ \E f \in PageFetches :
          visited' = Append(visited, Pass(range_run.current_date,
                                          edition_report(f).branch))
    /\ range_run' = [range_run EXCEPT !.current_date = @ - 1]
    /\ UNCHANGED notRange

\* one pass of the loop of check_manifesto_urls
Range_experiment_pass ==
    /\ range_run.pc = "while" /\ range_run.prog = "experiment"
    /\ range_test(range_run)
    /\ Len(visited) < MaxPasses
    /\ \E r \in PageResponses :
          /\ visited' = Append(visited, Pass(range_run.current_date,
                                             experiment_outcome(r)))
          /\ range_run' =
                [range_run EXCEPT
                   !.current_date =
                      experiment_next_date(@, experiment_outcome(r))]
    /\ UNCHANGED notRange

\* the while test fails: the client is closed and the function returns
Range_end ==
    /\ range_run.pc = "while"
    /\ ~range_test(range_run)
    /\ range_run' = [range_run EXCEPT !.pc = "done"]
    /\ UNCHANGED <<notRange, visited>>

InitRange ==
    /\ range_run = NoRange
    /\ visited = <<>>
    /\ PipelineIdle
    /\ GapIdle
    /\ PageIdle
    /\ MigrIdle
    /\ MoreIdle("range")

NextRange ==
    \/ Range_fetch_manifesto_edition_data
    \/ Range_check_manifesto_urls
    \/ Range_scrape2_pass
    \/ Range_experiment_pass
    \/ Range_end

SpecRange == InitRange /\ [][NextRange]_vars

\* ------------------------------------------------ gpt_extract.py
MaxObjects == 2     \* objects of the collection

\* values of captionAIStr and imageAIDeStr in the collection: absent, empty,
\* a text
AITexts == {NoString, <<>>, <<"o">>}

\* the property holding the image file name: editionImageStr as scrape.py
\* writes it, editionImageFnStr as the schema and the other programs name it
ImageFields == {"editionImageStr", "editionImageFnStr"}

\* the object stored under uuid u
Properties(u, field, caption_ai, image_ai, model) ==
    [editionId |-> u, editionDateIsoStr |-> u, captionStr |-> <<"h">>,
     kickerStr |-> <<"k">>, image_field |-> field, image |-> u,
     captionAIStr |-> caption_ai, imageAIDeStr |-> image_ai,
     modelAIName |-> model]

\* the collections the run may find: the three AI fields are absent from an
\* object no run has updated and present, possibly empty, in the others
Collections ==
    [1..MaxObjects ->
       {Properties(0, f, NoString, NoString, NoString) : f \in ImageFields}
       \cup {Properties(0, f, c, d, <<"o">>) :
                f \in ImageFields, c \in AITexts \ {NoString},
                d \in AITexts \ {NoString}}]

\* message.content of the completion: what follows "CAPTION:" and what
\* follows "DESCRIPTION:", NoString for a label that is not there
Contents ==
    [caption : {NoString, <<" ", "c">>},
     description : {NoString, <<"d", " ">>}]

\* what handling one object meets: the image file, the completion call, its
\* content, the update call
Handlings ==
    [image_read : BOOLEAN, completion : {"raises", "no_content", "content"},
     content : Contents, update_ok : BOOLEAN]

\* parse_gpt_response: (caption, description), "" for a label not found
parse_gpt_response(content) ==
    <<IF content.caption = NoString THEN <<>>
      ELSE strip(content.caption, Whitespace),
      IF content.description = NoString THEN <<>>
      ELSE strip(content.description, Whitespace)>>

\* the skip test that asks for both fields
already_enriched_both(properties) ==
    Truthy(properties.captionAIStr) /\ Truthy(properties.imageAIDeStr)

\* properties.get("captionAIStr") or properties.get("imageAIDeStr")
already_enriched(properties) ==
    Truthy(properties.captionAIStr) \/ Truthy(properties.imageAIDeStr)

\* the try block of process_object up to the update: the step that raises,
\* "none" when none does
raised_in(properties, h) ==
    IF properties.image_field # "editionImageStr" THEN "KeyError"
    ELSE IF ~h.image_read THEN "get_image_base64"
    ELSE IF h.completion = "raises" THEN "completions.create"
    ELSE IF h.completion = "no_content" THEN "parse_gpt_response"
    ELSE IF ~h.update_ok THEN "data.update"
    ELSE "none"

\* collection.data.update(uuid, properties): the named properties are set,
\* the others stay
data_update(properties, caption, description, model_name) ==
    [properties EXCEPT !.captionAIStr = caption,
                       !.imageAIDeStr = description,
                       !.modelAIName = model_name]

\* process_object: the properties the object has afterwards and how it ended
process_object(properties, h, model_name) ==
    IF already_enriched(properties)
    THEN <<properties, "skipped">>
    ELSE IF raised_in(properties, h) # "none"
    THEN <<properties, raised_in(properties, h)>>
    ELSE LET parsed == parse_gpt_response(h.content)
         IN <<data_update(properties, parsed[1], parsed[2], model_name),
              "updated">>

\* main up to the loop: the client, the collection, the extractor with
\* COP_VISION_MODELNAME (None when unset)
Enrich_main ==
    /\ extractor.pc = "idle"
    /\ \E m \in {NoString, <<"m">>} :
          extractor' = [pc |-> "iterating", model_name |-> m,
                        todo |-> DOMAIN copertine, outcomes |-> <<>>]
    /\ UNCHANGED <<notEnrich, copertine>>

\* one pass of "for obj in collection.iterator()", which yields the objects
\* in the order of their uuids
Enrich_process_object ==
    /\ extractor.pc = "iterating"
    /\ \E u \in {x \in extractor.todo : \A y \in extractor.todo : x <= y},
          h \in Handlings :
          LET done == process_object(copertine[u], h, extractor.model_name)
          IN /\ copertine' = [copertine EXCEPT ![u] = done[1]]
             /\ extractor' =
                   [extractor EXCEPT
                      !.todo = @ \ {u},
                      !.outcomes = Append(@, [uuid |-> u,
                                              outcome |-> done[2]])]
    /\ UNCHANGED notEnrich

\* the iterator is exhausted: finally client.close()
Enrich_end ==
    /\ extractor.pc = "iterating"
    /\ extractor.todo = {}
    /\ extractor' = [extractor EXCEPT !.pc = "done"]
    /\ UNCHANGED <<notEnrich, copertine>>

InitEnrich ==
    /\ \E c \in Collections :
          copertine = [u \in DOMAIN c |->
                         Properties(u, c[u].image_field, c[u].captionAIStr,
                                    c[u].imageAIDeStr, c[u].modelAIName)]
    /\ extractor = NoExtractor
    /\ PipelineIdle
    /\ GapIdle
    /\ PageIdle
    /\ MigrIdle
    /\ MoreIdle("enrich")

NextEnrich ==
    \/ Enrich_main
    \/ Enrich_process_object
    \/ Enrich_end

SpecEnrich == InitEnrich /\ [][NextEnrich]_vars

\* ------------------------------------------------ editionId, date, file name
\* Dates are year, month and day; a formatted date is the sequence of its
\* three numbers in the order of the format.
MaxMonthDay == 2    \* days of a month

Datetimes ==
    [y : {Year, Year + 1}, m : {Month, Month + 1}, d : 1..MaxMonthDay,
     time : Times, tz : {UTC, "+02:00"}]

\* strftime("%d-%m-%Y")
strftime_dmy(dt) == <<dt.d, dt.m, dt.y>>

\* strftime("%Y-%m-%d")
strftime_ymd(dt) == <<dt.y, dt.m, dt.d>>

\* datetime.isoformat(): YYYY-MM-DD, the time of day, the offset
datetime_isoformat(dt) == <<<<dt.y, dt.m, dt.d>>, dt.time, dt.tz>>

\* scrape2.store_in_weaviate: date_str.split("-"), then
\* f"{date_parts[2]}-{date_parts[1]}-{date_parts[0]}T00:00:00Z"
Html_iso_date(date_str) ==
    <<<<date_str[3], date_str[2], date_str[1]>>, 0, "Z">>

\* sd2._generate_image_filename
generate_image_filename(article, date) ==
    IF article.headline = <<>>
    THEN <<"il-manifesto", strftime_ymd(date), <<"no-headline">>>>
    ELSE <<"il-manifesto", strftime_ymd(date), slugify(article.headline)>>

Stored(path, edition_id, iso_date, image_filename) ==
    [path |-> path, editionId |-> edition_id, editionDateIsoStr |-> iso_date,
     editionImageFnStr |-> image_filename]

\* the name with the extension of the downloaded file
with_suffix(image_filename) == Append(image_filename, DefaultExtension)

\* scrape2: fetch_manifesto_edition_data formats current_date, names the
\* image of the page and, unless the name is empty, store_in_weaviate writes
\* the date string, the ISO date made of its parts and the name
Key_scrape2 ==
    /\ stored_record = NoStored
    /\ LET date_str == strftime_dmy(edition.date)
           image_filename ==
              Html_transform_image_url_to_filename(edition.image, date_str)
       IN stored_record' =
             IF image_filename = <<>>
             THEN Stored("scrape2", <<>>, <<>>, <<>>)
             ELSE Stored("scrape2", date_str, Html_iso_date(date_str),
                         image_filename)
    /\ UNCHANGED <<notKey, edition>>

\* scrapedirectus: _process_article formats datePublished as YYYY-MM-DD for
\* the file name (an article without headline is skipped by
\* _validate_article); store_in_weaviate formats it again as DD-MM-YYYY and
\* as isoformat()
Key_scrapedirectus ==
    /\ stored_record = NoStored
    /\ LET date_published == edition.date
           date_str == strftime_ymd(date_published)
       IN stored_record' =
             IF edition.headline = <<>>
             THEN Stored("scrapedirectus", <<>>, <<>>, <<>>)
             ELSE Stored("scrapedirectus", strftime_dmy(date_published),
                         datetime_isoformat(date_published),
                         with_suffix(Sdir_transform_image_url_to_filename(
                                         edition, date_str)))
    /\ UNCHANGED <<notKey, edition>>

\* sd2: _process_copertina names the image with the date of the query,
\* _store_in_weaviate writes the same date as DD-MM-YYYY and as isoformat()
Key_sd2 ==
    /\ stored_record = NoStored
    /\ edition.date.tz = UTC
    /\ stored_record' =
          Stored("sd2", strftime_dmy(edition.date),
                 datetime_isoformat(edition.date),
                 with_suffix(generate_image_filename(edition, edition.date)))
    /\ UNCHANGED <<notKey, edition>>

InitKey ==
    /\ edition \in [date : Datetimes, headline : HeadlineTexts, image : Urls]
    /\ stored_record = NoStored
    /\ PipelineIdle
    /\ GapIdle
    /\ PageIdle
    /\ MigrIdle
    /\ MoreIdle("key")

NextKey ==
    \/ Key_scrape2
    \/ Key_scrapedirectus
    \/ Key_sd2

SpecKey == InitKey /\ [][NextKey]_vars

\* ------------------------------------------------------------ properties
\* a step that processed one item
ItemStep == last'.seq # last.seq

\* outcomes in which the item was written to the store
Written == {"inserted", "replaced"}

\* outcomes in which the lookup and the deletes before the write all succeeded
CleanReconcile == {"none", "none_found", "deleted"}

\* the programs that read the Directus CMS
Directus == {"sd2", "scrapedirectus"}

\* C1: after a completed run the store holds at most one object per edition id
NoDuplicates ==
    status = "done" => \A k \in Keys : Cardinality(KeyRecs(store, k)) <= 1

\* C2: two upserts in a row of the same record for the same edition, with no
\* store failure, leave exactly one object of that edition, and the second
\* writes the id the first wrote
UpsertIdempotent ==
    [][(/\ ItemStep
        /\ last.outcome \in Written /\ last'.outcome \in Written
        /\ last.reconcile \in CleanReconcile /\ last'.reconcile \in CleanReconcile
        /\ last'.prog = last.prog /\ last'.key = last.key /\ last'.cap = last.cap)
       => /\ Cardinality(KeyRecs(store', last'.key)) = 1
          /\ last'.wid = last.wid]_vars

\* C3: an upsert that finds two objects of its edition under two ids leaves
\* exactly one object of that edition, under the uuid5 of the edition id
Reconciliation ==
    [][(/\ ItemStep
        /\ last'.outcome \in Written
        /\ Cardinality(Ids(KeyRecs(store, last'.key))) = 2)
       => /\ Cardinality(KeyRecs(store', last'.key)) = 1
          /\ Ids(KeyRecs(store', last'.key)) = {generate_uuid5(last'.key)}]_vars

\* outcomes in which the asset lookup or the download failed
DownloadFailures ==
    {"asset_none", "asset_raised", "download_failed", "download_raised"}

\* C4: every object a step inserts or replaces names an image file that is on
\* disk, and a step whose download failed writes no object
AssetBeforeRecord ==
    [][/\ \A r \in store' \ store : r.editionImageFnStr \in disk'
       /\ (ItemStep /\ last'.outcome \in DownloadFailures)
             => store' \ store = {}]_vars

AssetBeforeRecordWitness ==
    /\ last.outcome = "inserted"
    /\ \E r \in store : r.id = last.wid /\ r.editionImageFnStr \in disk
    /\ \E k \in Keys, h \in Headlines :
          ImageFn(k, h) \notin disk /\ HtmlImageFn(k, "cdn1") \notin disk

\* C5: an item that ends without a write leaves the objects of its edition
\* as they were
FailureLeavesStore ==
    [][(ItemStep /\ last'.outcome \notin Written)
       => KeyRecs(store', last'.key) = KeyRecs(store, last'.key)]_vars

\* C6: when a delete of the reconcile fails, nothing is written
ReconcileAbort ==
    last.reconcile = "delete_failed"
        => (last.outcome \notin Written /\ last.wid = NoId)

\* C7: a reconcile in which no delete failed leaves none of the objects the
\* edition had before
ReconcileComplete ==
    [][(/\ ItemStep
        /\ last'.reconcile = "deleted"
        /\ last'.outcome \in Written)
       => KeyRecs(store', last'.key) \cap KeyRecs(store, last'.key) = {}]_vars

\* C8: in scrapedirectus an insert refused because the id exists is followed
\* by a replace, after which the object under the id carries the new
\* properties and the other objects are untouched; any other insert error
\* leaves the store as it was
WriteConflictFallback ==
    [][(ItemStep /\ last'.prog = "scrapedirectus")
       => LET uuid == generate_uuid5(last'.key)
              new == Obj(uuid, Data(last'.key, last'.cap,
                                    ImageFn(last'.key, last'.cap)))
          IN /\ (uuid \in Ids(store) /\ last'.insertResp \notin {"none", "other"})
                   => /\ last'.insertResp = "conflict"
                      /\ last'.outcome \in {"replaced", "replace_failed"}
             /\ last'.outcome = "replaced"
                   => /\ {r \in store' : r.id = uuid} = {new}
                      /\ {r \in store' : r.id # uuid} = {r \in store : r.id # uuid}
             /\ last'.outcome = "replace_failed" => store' = store
             /\ last'.insertResp = "other"
                   => store' = store /\ last'.outcome = "insert_failed"]_vars

WriteConflictFallbackWitness ==
    /\ last.prog = "scrapedirectus"
    /\ last.insertResp = "conflict"
    /\ last.outcome = "replaced"
    /\ last.cap = "h2"
    /\ ImageFn(last.key, "h1") \in disk
    /\ \E r \in store : r.id = generate_uuid5(last.key) /\ r.captionStr = "h2"

\* C9: two writes in a row of a Directus program go to the same id exactly
\* when they are for the same edition
DeterministicIdentity ==
    [][(/\ ItemStep
        /\ last.wid # NoId /\ last'.wid # NoId
        /\ last'.prog = last.prog /\ last'.prog \in Directus)
       => (last'.key = last.key <=> last'.wid = last.wid)]_vars

\* C10: a failure of one item does not end the run while dates or articles of
\* the selector are left
PerDateIsolation ==
    (status = "aborted" /\ last.outcome \in Raised)
        => (todo = <<>> /\ articles = 0)

\* C11: a line of a date file that is no date is skipped: it does not end the
\* run, and the lines after it are still processed
MalformedLineSkipped ==
    last.outcome = "malformed_line"
        => (status # "aborted" /\ exit_code # 1)

\* C12: a run that completed exits with 0; the exit code is 1 only when the
\* scraper could not be constructed (store client, required variable)
ExitCode ==
    /\ status = "done" => exit_code = 0
    /\ exit_code = 1 => status = "init_failed"

\* C13: with -n (window) or a range, an item whose edition has an object in
\* the store is skipped: nothing is written and the objects of the edition
\* stay as they were
WindowSkipsExisting ==
    [][(/\ ItemStep
        /\ mode' \in {"number", "range"}
        /\ last'.key # NoDate
        /\ KeyRecs(store, last'.key) # {})
       => /\ last'.wid = NoId
          /\ KeyRecs(store', last'.key) = KeyRecs(store, last'.key)]_vars

\* C14: within one fetch of scrapedirectus an article whose edition an earlier
\* valid article of the fetch had is skipped with no effect, so a write goes
\* to an edition that no earlier article of the fetch had, and the edition is
\* remembered for the rest of the fetch
FetchDeduplicated ==
    [][(ItemStep /\ last'.prog = "scrapedirectus" /\ last'.art # NoArticle)
       => /\ (/\ last'.key \in processed_edition_ids
              /\ last'.art.headline /\ last'.art.image)
                => /\ last'.outcome = "dup_skip"
                   /\ store' = store /\ disk' = disk
          /\ last'.wid # NoId => last'.key \notin processed_edition_ids
          /\ (last'.wid # NoId /\ articles > 1)
                => last'.key \in processed_edition_ids'
          /\ (articles > 1 /\ status' = "running")
                => processed_edition_ids \subseteq processed_edition_ids']_vars

FetchDeduplicatedWitness ==
    /\ last.prog = "scrapedirectus"
    /\ last.outcome = "dup_skip"
    /\ last.seq = 2
    /\ \E r \in store : r.id = generate_uuid5(last.key)

\* C15: a CMS article without headline or without featured image is rejected
\* with no effect at all (nothing looked up, downloaded, deleted or written);
\* an article with both passes the gate, with or without kicker
ValidationGate ==
    [][(ItemStep /\ last'.prog \in Directus /\ last'.art # NoArticle)
       => /\ (~last'.art.headline \/ ~last'.art.image)
                => /\ last'.outcome = "invalid"
                   /\ last'.reconcile = "none"
                   /\ store' = store /\ disk' = disk /\ nextAuto' = nextAuto
          /\ (last'.art.headline /\ last'.art.image)
                => last'.outcome # "invalid"]_vars

ValidationGateWitness ==
    /\ last.prog = "sd2"
    /\ last.outcome = "invalid"
    /\ last.art # NoArticle
    /\ last.art.headline /\ ~last.art.image
    /\ Cardinality(KeyRecs(store, last.key)) = MaxGateStale

\* the dates find_missing_dates has to return for E, the holidays H and now
MissingSet(E, H, now) ==
    {d \in MinDate(E)..now :
        /\ isoweekday(d) # Monday
        /\ <<DayOf(d), MonthOf(d)>> \notin H
        /\ d \notin E}

\* C16: for a non-empty set E of existing dates find_missing_dates returns
\* exactly the days from min(E) to today that are no Monday, no holiday (by
\* day and month) and not in E, ascending and without repeats; for an empty E
\* it returns the empty list
GapDetection ==
    missing_dates # NoResult
        => IF existing_dates = {}
           THEN missing_dates = <<>>
           ELSE /\ {missing_dates[i] : i \in 1..Len(missing_dates)}
                      = MissingSet(existing_dates,
                                   ParseIgnored(ignored_dates_str), today)
                /\ \A i \in 1..Len(missing_dates), j \in 1..Len(missing_dates) :
                      i < j => missing_dates[i] < missing_dates[j]

GapDetectionWitness ==
    /\ missing_dates # NoResult
    /\ Len(missing_dates) >= 2
    /\ \E d \in MinDate(existing_dates)..today :
          /\ d \notin existing_dates
          /\ isoweekday(d) # Monday
          /\ <<DayOf(d), MonthOf(d)>> \in ParseIgnored(ignored_dates_str)
    /\ \E d \in MinDate(existing_dates)..today :
          d \notin existing_dates /\ isoweekday(d) = Monday
    /\ \E d \in existing_dates : d > MinDate(existing_dates) /\ d < today

\* C17: when a run has ended, however it ended, its store client is not left
\* open
ClientReleased ==
    status \in {"done", "aborted", "init_failed"} => weaviate_client # "open"

\* C18: a failure of the asset lookup or of the download comes back to the
\* caller as a value: no item ends with an exception out of the resolver
ResolverReturnsFailure ==
    last.outcome \notin {"asset_raised", "download_raised"}

\* a block with the four elements of a main article
Qualifies(b) ==
    /\ b.img_container \in CdnSrcs
    /\ b.category
    /\ b.heading # NoneV

SecondRunInsertsNothing ==
    [][migr.completed >= 1 => new_collection' = new_collection]_vars

\* C20: the migration inserts an object only when the lookup answered that
\* the new collection holds no object of its edition id, and then it does
\* not hold one; a lookup that fails inserts nothing; the new collection never
\* loses an object and never holds two objects of one edition id.  So a later
\* run inserts only edition ids the new collection does not hold yet.
MigrationWithoutDuplicates ==
    /\ [](\A k \in Keys : Cardinality(KeyRecs(new_collection, k)) <= 1)
    /\ [][/\ new_collection \subseteq new_collection'
          /\ Cardinality(new_collection' \ new_collection) <= 1
          /\ \A r \in new_collection' \ new_collection :
                /\ KeyRecs(new_collection, r.editionId) = {}
                /\ migr'.check = "absent"
                /\ migr'.inserted
          /\ migr'.check = "error" => new_collection' = new_collection]_vars

MigrationWithoutDuplicatesWitness ==
    /\ migr.completed = 1
    /\ migr.run = 2
    /\ migr.pos = 3
    /\ migr.check = "present"
    /\ old_collection = <<2, 2>>
    /\ Cardinality(KeyRecs(new_collection, 2)) = 1

RequestStep == response'.n # response.n

\* C21: a registration answered 200 leaves an inactive account and an unused
\* token that expires VERIFICATION_TOKEN_EXPIRE_HOURS later; a login is
\* answered 200 only for an active account; submitting an issued token that
\* is unused and not expired is not rejected and, answered 200, activates its
\* account and marks the token used; a token that is used, expired or was
\* never issued is answered 400, and any answer but 200 changes no row
AccountVerification ==
    [][RequestStep =>
         /\ (response'.op = "register" /\ response'.status_code = 200) =>
               /\ \E u \in users' \ users :
                     u.email = response'.arg /\ ~u.is_active
               /\ \E v \in email_verifications' \ email_verifications :
                     /\ v.user_id = response'.arg
                     /\ ~v.used
                     /\ v.expires_at =
                           utcnow + VERIFICATION_TOKEN_EXPIRE_HOURS
         /\ (response'.op = "login" /\ response'.status_code = 200) =>
               \E u \in users : u.email = response'.arg /\ u.is_active
         /\ response'.op = "verify-email" =>
               LET live == {v \in email_verifications :
                              /\ v.token = response'.arg
                              /\ ~v.used
                              /\ utcnow < v.expires_at}
               IN /\ live # {} => response'.status_code \in {200, 500}
                  /\ live = {} => response'.status_code = 400
                  /\ response'.status_code = 200 =>
                        \A v \in live :
                           /\ \E u \in users' :
                                 u.email = v.user_id /\ u.is_active
                           /\ v \notin email_verifications'
                           /\ [v EXCEPT !.used = TRUE] \in
                                 email_verifications'
                           /\ \A u \in users :
                                 u.email # v.user_id => u \in users'
                  /\ response'.status_code # 200 =>
                        /\ users' = users
                        /\ email_verifications' = email_verifications]_vars

\* a token submitted again after it activated its account is rejected
AccountVerificationWitness ==
    /\ response.op = "verify-email"
    /\ response.status_code = 400
    /\ \E v \in email_verifications :
          /\ v.token = response.arg
          /\ v.used
          /\ utcnow < v.expires_at
          /\ \E u \in users : u.email = v.user_id /\ u.is_active

\* C22: a download that got status 200 with no content-type header, or with
\* one no extension is known for, and could write the file, returns the
\* destination name with the default extension
ExtensionFallback ==
    (/\ downloaded # NoDownload
     /\ http_response.raises = "none"
     /\ http_response.status_code = HTTP_STATUS_OK
     /\ http_response.write_ok
     /\ \/ http_response.content_type = NoneV
        \/ guess_extension(http_response.content_type) = NoneV)
    => /\ downloaded.outcome = "saved"
       /\ downloaded.name = <<base_filename, DefaultExtension>>

\* C23: what slugify returns holds only lowercase letters, digits and
\* hyphens, no two hyphens side by side, no hyphen first or last, and
\* slugify leaves it as it is
SlugShape ==
    slug # NoString =>
       /\ \A i \in 1..Len(slug) : slug[i] \in {"a", "b", "7", "-"}
       /\ \A i \in 1..Len(slug) - 1 : ~(slug[i] = "-" /\ slug[i + 1] = "-")
       /\ slug # <<>> => (slug[1] # "-" /\ slug[Len(slug)] # "-")
       /\ slugify(slug) = slug

\* C24: two editions of one source with the same date and the same headline
\* get the same destination base name, whatever their image URLs
FilenameDerivation ==
    (/\ filenames # <<>>
     /\ editions[1].date = editions[2].date
     /\ editions[1].headline = editions[2].headline)
    => filenames[1] = filenames[2]

\* C25: the editionDateIsoStr of a record written by any path is midnight
\* UTC of the date of its editionId
PublicationDateNormalized ==
    iso_record # NoIso =>
       /\ iso_record.iso[1] = iso_record.editionId
       /\ iso_record.iso[2] = 0
       /\ iso_record.iso[3] \in {"Z", UTC}

\* a transport error on one of the two gets of the date
NetworkError(f) ==
    \/ f.first.raises
    \/ check_url_exists(f.first) /\ ~f.in_collection /\ f.second.raises

\* the page of the date answers with a status other than 200
NotFound(f) == ~f.first.raises /\ f.first.status_code # HTTP_STATUS_OK

\* the page is fetched with status 200 and has no qualifying article
NoQualifyingArticle(f) ==
    /\ check_url_exists(f.first) /\ ~f.in_collection
    /\ check_url_exists(f.second) /\ ~f.second.main

\* C26: what the caller gets for a date whose fetch had a network error
\* differs from what it gets for a date whose page is not found and from
\* what it gets for a date whose page has no qualifying article
OutcomesDistinguishable ==
    fetch_reports # <<>> =>
       \A i, j \in 1..2 :
          (/\ NetworkError(page_fetches[i])
           /\ \/ NotFound(page_fetches[j])
              \/ NoQualifyingArticle(page_fetches[j]))
          => fetch_reports[i] # fetch_reports[j]

\* s without the leading prefix p and the whitespace after it, when p is a
\* text and s begins with it
WithoutLeading(s, p) ==
    IF p # NoString /\ p # <<>> /\ startswith(s, p)
    THEN lstrip(SubSeq(s, Len(p) + 1, Len(s)), Whitespace) ELSE s

\* C27: for every title, author and body, absent ones included, a record is
\* stored whose kicker is the body (empty when absent) without the leading
\* title and without the leading author
BodyPrefixStripped ==
    html_record # NoStoreCall =>
       /\ html_record.stored
       /\ html_record.kickerStr =
             WithoutLeading(
                WithoutLeading(IF page_info.body = NoString
                               THEN <<>> ELSE page_info.body,
                               page_info.title),
                page_info.author)

\* C28: for every day count of -n, each of the two programs queries the CMS
\* for exactly the dates from today - (number - 1) to today (none when the
\* count is not positive), so the two query the same dates
TrailingWindow ==
    \A p \in {"sd2", "scrapedirectus"} :
       windows[p].ran =>
          windows[p].dates = (window_now.day - (number - 1))..window_now.day

TrailingWindowWitness ==
    /\ number = 2
    /\ windows.sd2.ran /\ windows.scrapedirectus.ran
    /\ windows.sd2.dates = windows.scrapedirectus.dates
    /\ Cardinality(windows.sd2.dates) = 2

\* a step of scrape_images that attempted a page
AttemptStep == attempted'.n # attempted.n

\* C29: an attempt is made only while fewer than max_retries attempts in a row
\* have failed; a failed attempt that is not the max_retries-th in a row
\* leaves the run in the loop on the same page, the max_retries-th leaves the
\* run ended or about to leave the loop; and a processed page sets the retry
\* count to 0
BoundedRetries ==
    [][AttemptStep =>
         /\ failed_attempts < scraper.max_retries
         /\ attempted'.outcome \in Failures =>
               IF failed_attempts' < scraper.max_retries
               THEN /\ scraper'.pc = "while"
                    /\ loop_test(scraper')
                    /\ scraper'.next_url = attempted'.url
               ELSE scraper'.pc = "done" \/ ~loop_test(scraper')
         /\ attempted'.outcome = "ok" =>
               /\ scraper'.retry_count = 0
               /\ attempted'.url \in scraper'.processed]_vars

BoundedRetriesWitness ==
    /\ scraper.pc = "done"
    /\ scraper.max_retries = 3
    /\ scraper.page_count = 1
    /\ failed_attempts = scraper.max_retries
    /\ attempted.outcome = "no_images"
    /\ attempted.n = 6

\* C30: in a date-range run of either HTML program the i-th pass of the loop
\* is on the date i - 1 days before the newest, whatever the fetch of a date
\* gave, so no date is visited twice and the run comes to its end; the ended
\* run has visited every date from the newest down to the oldest
RangeRunTerminates ==
    /\ \A i \in 1..Len(visited) :
          visited[i].date = range_run.newest - (i - 1)
    /\ range_run.pc = "done" =>
          Len(visited) = Len(DatesDown(range_run.newest, range_run.oldest))

\* the properties the enrichment may set
AIFields == {"captionAIStr", "imageAIDeStr", "modelAIName"}

\* outcomes of process_object in which an exception was logged
EnrichFailures ==
    {"KeyError", "get_image_base64", "completions.create",
     "parse_gpt_response", "data.update"}

\* C31: handling one object leaves every other object as it was; it leaves
\* the object itself as it was when captionAIStr or imageAIDeStr was
\* populated or when handling it failed; otherwise the object stays under its
\* uuid with every property but the three AI fields unchanged and with
\* modelAIName set to the model name; and after any outcome the iteration
\* goes on to the objects still to come
EnrichmentFrame ==
    [][extractor'.outcomes # extractor.outcomes =>
         LET handled == extractor'.outcomes[Len(extractor'.outcomes)]
             u == handled.uuid
             old == copertine[u]
             new == copertine'[u]
         IN /\ DOMAIN copertine' = DOMAIN copertine
            /\ \A v \in DOMAIN copertine \ {u} : copertine'[v] = copertine[v]
            /\ \A f \in DOMAIN old \ AIFields : new[f] = old[f]
            /\ (Truthy(old.captionAIStr) \/ Truthy(old.imageAIDeStr)) =>
                  new = old /\ handled.outcome = "skipped"
            /\ handled.outcome \in EnrichFailures => new = old
            /\ (/\ ~Truthy(old.captionAIStr) /\ ~Truthy(old.imageAIDeStr)
                /\ handled.outcome \notin EnrichFailures) =>
                  /\ handled.outcome = "updated"
                  /\ new.modelAIName = extractor.model_name
            /\ extractor'.pc = "iterating"
            /\ extractor'.todo = extractor.todo \ {u}]_vars

EnrichmentFrameWitness ==
    /\ extractor.pc = "done"
    /\ Len(extractor.outcomes) = 2
    /\ extractor.outcomes[1].outcome = "completions.create"
    /\ extractor.outcomes[2].outcome = "updated"
    /\ copertine[extractor.outcomes[2].uuid].captionAIStr = <<"c">>

\* a step that starts a range run of scrape2
RangeRunStarts ==
    /\ status # "running" /\ status' \in {"running", "done"}
    /\ prog' = "scrape2" /\ mode' = "range"

\* C32: a range run of scrape2 started on a collection that holds editions
\* is given only dates after the most recent stored one and up to today, none
\* when the most recent stored one is today or later; and a date the run
\* handles is one it was given
IncrementalRunBounds ==
    [][/\ (RangeRunStarts /\ store # {}) =>
             LET most_recent == Max({r.editionId : r \in store})
             IN /\ \A i \in 1..Len(todo') : \A d \in todo'[i] :
                      most_recent < d /\ d <= Today
                /\ most_recent >= Today => todo' = <<>>
       /\ (ItemStep /\ last'.prog = "scrape2" /\ mode = "range") =>
             /\ todo # <<>>
             /\ last'.key \in Head(todo)]_vars

\* the date a DD-MM-YYYY string denotes, as year, month, day
DateOfDmy(s) == <<s[3], s[2], s[1]>>

\* C33: the editionId of a stored record is the day, the month and the year
\* of a date, in this order, and that date is the date of its
\* editionDateIsoStr and the date in its image file name
KeyDateConsistent ==
    stored_record.editionId # <<>> =>
       /\ Len(stored_record.editionId) = 3
       /\ stored_record.editionId[1] \in 1..MaxMonthDay
       /\ stored_record.editionId[2] \in {Month, Month + 1}
       /\ stored_record.editionId[3] \in {Year, Year + 1}
       /\ stored_record.editionDateIsoStr[1] =
             DateOfDmy(stored_record.editionId)
       /\ stored_record.editionImageFnStr[1] = "il-manifesto"
       /\ stored_record.editionImageFnStr[2] =
             DateOfDmy(stored_record.editionId)

KeyDateConsistentWitness ==
    /\ stored_record.path = "scrapedirectus"
    /\ stored_record.editionId = <<2, 1, 2025>>
    /\ stored_record.editionDateIsoStr = <<<<2025, 1, 2>>, 23, "+02:00">>
    /\ stored_record.editionImageFnStr[2] = <<2025, 1, 2>>

\* C34: a registration answered with an error leaves the user rows as they
\* were, so an email that had no account before it has none after it
RegistrationAtomic ==
    [][(/\ RequestStep
        /\ response'.op = "register"
        /\ response'.status_code # 200)
       => /\ users' = users
          /\ (~\E u \in users : u.email = response'.arg) =>
                ~\E u \in users' : u.email = response'.arg]_vars

\* C35: when migrate_data returns its statistics, total is the number of
\* objects of the old collection and is the sum of existing, migrated and
\* failed
MigrationCounters ==
    migr.status = "done" =>
       /\ migr.stats.total = Len(old_collection)
       /\ migr.stats.total =
             migr.stats.existing + migr.stats.migrated + migr.stats.failed

MigrationCountersWitness ==
    /\ migr.status = "done"
    /\ old_collection = <<NoDate, 1>>
    /\ migr.stats = [total |-> 2, existing |-> 0, migrated |-> 1, failed |-> 1]

====
